---- MODULE Spec2Model ----
(***************************************************************************)
(* The execution engine of tiron: the dispatcher thread that runs the runs *)
(* of an invocation one after the other (tiron/src/core.rs), the per-run   *)
(* fan-out and aggregation (tiron/src/run.rs), the per-host worker and     *)
(* reader thread (tiron/src/node.rs), the node agent's mainloop            *)
(* (lapon-node/src/node.rs) and the output streaming threads of a          *)
(* subprocess (tiron-node/src/action/command.rs).                          *)
(*                                                                         *)
(* Channels are crossbeam channels: FIFO, unbounded unless said otherwise. *)
(* The UI sink channel (Sender<AppEvent>) is multi-producer.  It is        *)
(* recorded by its projections on the producers: uiRun holds what the      *)
(* dispatcher thread sent, uiHost[h] what the worker and the reader thread *)
(* of host h sent, each in send order.                                     *)
(***************************************************************************)
EXTENDS Integers, Sequences, FiniteSets, TLC

\* ------------------------------------------------------------------ bounds
NumRuns == 2        \* runs of an invocation (RunSpec)
NumHosts == 2       \* hosts of a run (RunSpec)
MaxActions == 2     \* actions of the host's plan (Spec)
MaxLines == 1       \* lines a subprocess writes to one of its streams (Spec)
MaxMsgs == 3        \* messages on the input of a stand-alone agent (AgentSpec)
MaxEntries == 2     \* entries of a group block (LoadSpec)
MaxBooks == 2       \* runbooks named on the command line (CmdSpec)
MaxSent == 3        \* messages sent into a transport (WireSpec)
MaxNoise == 2       \* lines on the wire that are no message (WireSpec)
MaxLevel == 3       \* levels of import the load is followed to (ImportSpec)
MaxDepth == 3       \* nested jobs the plan is followed to (PlanSpec)

VARIABLES
    runs,        \* the runs of the invocation: runs[r][i] is a Node
    uiRun,       \* UI sink, events sent by the dispatcher thread
    uiHost,      \* UI sink, events sent by the threads of each host
    dispatcher,  \* the dispatcher thread: [pc, run, recv, errors]
    worker,      \* the thread of Run::execute that calls Node::execute
    exitCh,      \* the bounded(1) channel exit_tx/exit_rx of each host
    toNode,      \* Sender<NodeMessage> -> agent, per host
    fromNode,    \* agent -> Receiver<ActionMessage>, per host
    closed,      \* the remote transport of the host has ended (EOF)
    reader,      \* the reader thread spawned by Node::execute
    agent,       \* the agent's mainloop: [pc, had_error, cur]
    streams,     \* the running stdout/stderr threads: [id, stream, left]
    invoked,     \* ids of the actions whose executor was invoked, in order
    loader,      \* the runbook loader: [input, pos, rb, resolved, runs, error]
    cli,         \* the process of an invocation: core.rs cmd and run
    wire         \* one direction of a transport: channels, threads and pipe

vars == <<runs, uiRun, uiHost, dispatcher, worker, exitCh, toNode, fromNode,
          closed, reader, agent, streams, invoked, loader, cli, wire>>

\* ------------------------------------------------------------ data model
\* tiron-node/src/action/data.rs: the keys of the catalog
AllActions == {"copy", "package"}

\* the host strings that select the local transport
LocalHosts == {"localhost", "127.0.0.1"}

WebNames == <<"web1", "web2", "web3", "web4", "web5", "web6">>

NoAction == [id |-> <<0, 0, 0>>, name |-> "", action |-> "", input |-> 0]

\* ActionData{id, name, action, input}.  The payload is opaque to the
\* controller; `input` keeps of it the number of lines the subprocess of the
\* action may write to each of its streams.
ActionData(id, name, action, input) ==
    [id |-> id, name |-> name, action |-> action, input |-> input]

HostIds == UNION {{<<r, i>> : i \in DOMAIN runs[r]} : r \in DOMAIN runs}

NodeOf(h) == runs[h[1]][h[2]]

\* NodeMessage
MsgAction(data) == [type |-> "Action", data |-> data]
MsgShutdown == [type |-> "Shutdown"]

\* ActionMessage
ActionStarted(id) == [type |-> "ActionStarted", id |-> id]
ActionStdout(id, content) ==
    [type |-> "ActionStdout", id |-> id, content |-> content]
ActionOutputLine(id, stream) ==
    [type |-> "ActionOutputLine", id |-> id, content |-> stream,
     level |-> "Info"]
ActionResult(id, success) ==
    [type |-> "ActionResult", id |-> id, success |-> success]
NodeShutdown(success) == [type |-> "NodeShutdown", success |-> success]
NodeStartFailed == [type |-> "NodeStartFailed"]

\* RunEvent
RunStarted(id) == [type |-> "RunStarted", id |-> id]
RunCompleted(id, success) ==
    [type |-> "RunCompleted", id |-> id, success |-> success]

\* AppEvent::Action { run, host, msg }
AppEventAction(run_id, host_id, msg) ==
    [run |-> run_id, host |-> host_id, msg |-> msg]

\* ------------------------------------------------------------------ Init
\* The runs of an invocation: nr runs over the same inventory `inv` (a
\* sequence of distinct host strings), each host's plan compiled from the same
\* action list: names[j] is the display name of action j, "copy" its kind,
\* lines[j] what its payload makes the subprocess write.
MkRuns(nr, inv, names, lines) ==
    [r \in 1..nr |->
        [i \in 1..Len(inv) |->
            [id |-> <<r, i>>,
             host |-> inv[i],
             actions |-> [j \in 1..Len(names) |->
                 ActionData(<<r, i, j>>, names[j], "copy", lines[j])]]]]

\* inventories of n hosts: host `l` is localhost (none when l = 0)
Inventory(n, l) == [i \in 1..n |-> IF i = l THEN "localhost" ELSE WebNames[i]]

\* display names: the kind itself, or a label given with `name = ...`
PlanNames == {"copy", "deploy"}

\* the action lists of RunInit: one action, named by its kind or by a label
RunPlans == {<<"copy">>, <<"deploy">>}

\* no invocation is modelled: the runs are given as loaded
NoCli == [pc |-> "none"]

\* no transport is modelled in detail
NoWire == [pc |-> "none"]

\* the engine before the dispatcher thread is spawned
EngineInit(rs) ==
    /\ runs = rs
    /\ uiRun = <<>>
    /\ uiHost = [h \in HostIds |-> <<>>]
    /\ dispatcher = [pc |-> "next", run |-> 1, recv |-> 0, errors |-> 0]
    /\ worker = [h \in HostIds |-> "unspawned"]
    /\ exitCh = [h \in HostIds |-> "none"]
    /\ toNode = [h \in HostIds |-> <<>>]
    /\ fromNode = [h \in HostIds |-> <<>>]
    /\ closed = [h \in HostIds |-> FALSE]
    /\ reader = [h \in HostIds |-> "none"]
    /\ agent = [h \in HostIds |->
                  [pc |-> "none", had_error |-> FALSE, cur |-> NoAction]]
    /\ streams = [h \in HostIds |-> {}]
    /\ invoked = [h \in HostIds |-> <<>>]

\* core.rs:706-718: the runbooks are loaded, `rs` are their runs
InitState(rs) ==
    /\ EngineInit(rs)
    /\ loader = [input |-> <<>>, pos |-> 1,
                 rb |-> [groups |-> <<>>, imports |-> <<>>],
                 resolved |-> <<>>, runs |-> <<>>, error |-> ""]
    /\ cli = NoCli
    /\ wire = NoWire

\* one run on one host, local or remote; action c of its plan runs a
\* subprocess that writes output
Init ==
    \E l \in 0..1, names \in [1..MaxActions -> PlanNames], c \in 1..MaxActions :
        InitState(MkRuns(1, Inventory(1, l), names,
                         [j \in 1..MaxActions |->
                             IF j = c THEN MaxLines ELSE 0]))

\* several runs on several hosts, the first or the last of them localhost;
\* no action writes output
RunInit ==
    \E l \in {1, NumHosts}, names \in RunPlans :
        InitState(MkRuns(NumRuns, Inventory(NumHosts, l), names,
                         [j \in 1..Len(names) |-> 0]))

\* ------------------------------------------------- dispatcher (core.rs)
\* core.rs:719-720: the next run of `for run in runs`: send RunStarted
DispatchRunStarted ==
    /\ dispatcher.pc = "next"
    /\ dispatcher.run <= Len(runs)
    /\ uiRun' = Append(uiRun, RunStarted(dispatcher.run))
    /\ dispatcher' = [dispatcher EXCEPT !.pc = "spawn"]
    /\ UNCHANGED <<cli, wire, loader, runs, uiHost, worker, exitCh, toNode, fromNode, closed,
                   reader, agent, streams, invoked>>

\* a run whose host list also holds the hosts of the runs declared after it
RunHosts_FromRun(r) == {h \in HostIds : h[1] >= r}

\* run.rs:118: `for host in &self.hosts`: the hosts of run r
RunHosts(r) == {h \in HostIds : h[1] = r}

\* run.rs:116-127: one exit channel and one worker thread per host
RunExecuteSpawn ==
    /\ dispatcher.pc = "spawn"
    /\ LET r == dispatcher.run IN
        /\ worker' = [h \in HostIds |->
                        IF h \in RunHosts(r) THEN "spawned" ELSE worker[h]]
        /\ exitCh' = [h \in HostIds |->
                        IF h \in RunHosts(r) THEN "empty" ELSE exitCh[h]]
        /\ dispatcher' = [dispatcher EXCEPT !.pc = "recv", !.recv = 1,
                                            !.errors = 0]
    /\ UNCHANGED <<cli, wire, loader, runs, uiRun, uiHost, toNode, fromNode, closed, reader,
                   agent, streams, invoked>>

\* an aggregator that polls the exit channel (try_recv) instead of waiting
RecvReady_NoWait(ch) == TRUE

\* the outcome of exit_rx.recv(): Ok(v) when a value is buffered, Err when
\* the channel is empty and its sender dropped; blocks otherwise
RecvReady(ch) == ch \in {"true", "false", "dropped"}

\* an aggregator that counts Ok(false) only, taking a dropped sender (Err)
\* for a success
CountError_OnlyFalse(errors, ch) ==
    IF ch = "false" THEN errors + 1 ELSE errors

\* run.rs:131-134: `if result != Ok(true) { errors += 1; }`
CountError(errors, ch) == IF ch /= "true" THEN errors + 1 ELSE errors

\* run.rs:130-135: the next receiver of `for rx in &receivers`
RunExecuteRecv ==
    /\ dispatcher.pc = "recv"
    /\ LET r == dispatcher.run
           i == dispatcher.recv
       IN /\ i <= Len(runs[r])
          /\ RecvReady(exitCh[<<r, i>>])
          /\ dispatcher' =
               [dispatcher EXCEPT
                   !.errors = CountError(dispatcher.errors, exitCh[<<r, i>>]),
                   !.recv = i + 1,
                   !.pc = IF i = Len(runs[r]) THEN "complete" ELSE "recv"]
    /\ UNCHANGED <<cli, wire, loader, runs, uiRun, uiHost, worker, exitCh, toNode, fromNode,
                   closed, reader, agent, streams, invoked>>

\* run.rs:137: Ok(errors == 0)
RunSuccess(errors) == errors = 0

\* a dispatcher without the `break`
AfterRun_NoBreak(success, r) ==
    IF r = Len(runs)
        THEN [pc |-> "done", run |-> r]
        ELSE [pc |-> "next", run |-> r + 1]

\* core.rs:726-728: `if !success { break; }`, else the next run
AfterRun(success, r) ==
    IF ~success \/ r = Len(runs)
        THEN [pc |-> "done", run |-> r]
        ELSE [pc |-> "next", run |-> r + 1]

\* core.rs:721-728: run.execute() has returned: send RunCompleted
DispatchRunCompleted ==
    /\ dispatcher.pc = "complete"
    /\ LET success == RunSuccess(dispatcher.errors)
           nxt == AfterRun(success, dispatcher.run)
       IN /\ uiRun' = Append(uiRun, RunCompleted(dispatcher.run, success))
          /\ dispatcher' = [dispatcher EXCEPT !.pc = nxt.pc, !.run = nxt.run]
    /\ UNCHANGED <<cli, wire, loader, runs, uiHost, worker, exitCh, toNode, fromNode, closed,
                   reader, agent, streams, invoked>>

\* ---------------------------------------------- host worker (node.rs)
\* node.rs:110-125: Node::start picks the transport by the host string
IsLocal(host) == host \in LocalHosts

\* a send loop that sends the plan a second time (a retry)
SendLoop_Twice(actions) ==
    [j \in 1..2 * Len(actions) |->
        MsgAction(actions[((j - 1) % Len(actions)) + 1])] \o <<MsgShutdown>>

\* a send loop that walks the plan from its end
SendLoop_Reversed(actions) ==
    [j \in 1..Len(actions) |-> MsgAction(actions[Len(actions) + 1 - j])]
        \o <<MsgShutdown>>

\* node.rs:102-105: every ActionData of the plan, in order, then Shutdown
SendLoop(actions) ==
    [j \in 1..Len(actions) |-> MsgAction(actions[j])] \o <<MsgShutdown>>

\* node.rs:59-70: start() fails (remote transport only): NodeStartFailed goes
\* to the UI sink and execute returns Err, which drops exit_tx
NodeExecuteStartFailed(h) ==
    /\ worker[h] = "spawned"
    /\ ~IsLocal(NodeOf(h).host)
    /\ uiHost' = [uiHost EXCEPT
                    ![h] = Append(@, AppEventAction(h[1], NodeOf(h).id,
                                                    NodeStartFailed))]
    /\ exitCh' = [exitCh EXCEPT ![h] = "dropped"]
    /\ worker' = [worker EXCEPT ![h] = "returned"]
    /\ UNCHANGED <<cli, wire, loader, runs, uiRun, dispatcher, toNode, fromNode, closed, reader,
                   agent, streams, invoked>>

\* node.rs:58-108: start() succeeds: the agent runs (local.rs:10-13, or the
\* remote process), the reader thread is spawned, the plan and Shutdown are
\* sent.  The sends never block (unbounded channel), so what the agent and the
\* reader do between two of them commutes with the later sends.
NodeExecute(h) ==
    /\ worker[h] = "spawned"
    /\ agent' = [agent EXCEPT ![h].pc = "idle"]
    /\ reader' = [reader EXCEPT ![h] = "running"]
    /\ toNode' = [toNode EXCEPT ![h] = SendLoop(NodeOf(h).actions)]
    /\ worker' = [worker EXCEPT ![h] = "returned"]
    /\ UNCHANGED <<cli, wire, loader, runs, uiRun, uiHost, dispatcher, exitCh, fromNode, closed,
                   streams, invoked>>

\* ---------------------------------------------- reader thread (node.rs)
\* the value exit_tx.send(success) leaves in the exit channel
ExitValue(success) == IF success THEN "true" ELSE "false"

\* the reader stays in its loop whatever it forwarded
ReaderAfter_KeepOn(msg) == "running"

\* node.rs:79-93: the reader thread returns once it forwarded NodeShutdown
\* and goes on with its loop after any other message
ReaderAfter(msg) == IF msg.type = "NodeShutdown" THEN "done" ELSE "running"

\* node.rs:78-94: forward the next message of the agent to the UI sink; on
\* NodeShutdown report its success to the aggregator and return
ReaderForward(h) ==
    /\ reader[h] = "running"
    /\ fromNode[h] /= <<>>
    /\ LET msg == Head(fromNode[h]) IN
        /\ uiHost' = [uiHost EXCEPT
                        ![h] = Append(@, AppEventAction(h[1], NodeOf(h).id,
                                                        msg))]
        /\ fromNode' = [fromNode EXCEPT ![h] = Tail(@)]
        /\ exitCh' = IF msg.type = "NodeShutdown"
                        THEN [exitCh EXCEPT ![h] = ExitValue(msg.success)]
                        ELSE exitCh
        /\ reader' = [reader EXCEPT ![h] = ReaderAfter(msg)]
    /\ UNCHANGED <<cli, wire, loader, runs, uiRun, dispatcher, worker, toNode, closed, agent,
                   streams, invoked>>

\* the senders of NodeMessage: tx of Node::execute, dropped when it returns,
\* and its clone node_tx, which the reader thread holds until it returns
\* (node.rs:74, 96-98)
ToNodeDisconnected(h) == worker[h] = "returned" /\ reader[h] = "done"

\* lapon-node/node.rs:35, 69: rx.recv() fails on the empty, disconnected
\* channel: the loop ends and mainloop returns, dropping its sender
MainloopExited(h) ==
    agent[h].pc = "idle" /\ toNode[h] = <<>> /\ ToNodeDisconnected(h)

\* every sender of the agent's messages is gone: the remote transport ended,
\* or the local mainloop returned and no streaming thread holds a clone
FromNodeDisconnected(h) ==
    \/ closed[h]
    \/ MainloopExited(h) /\ streams[h] = {}

\* node.rs:78,95: rx.recv() fails: the stream ended without NodeShutdown
ReaderStreamEnded(h) ==
    /\ reader[h] = "running"
    /\ fromNode[h] = <<>>
    /\ FromNodeDisconnected(h)
    /\ exitCh' = [exitCh EXCEPT ![h] = ExitValue(FALSE)]
    /\ reader' = [reader EXCEPT ![h] = "done"]
    /\ UNCHANGED <<cli, wire, loader, runs, uiRun, uiHost, dispatcher, worker, toNode, fromNode,
                   closed, agent, streams, invoked>>

\* ------------------------------------- agent mainloop (lapon-node/node.rs)
\* a send on the agent's Sender<ActionMessage>: it fails, and is ignored,
\* once the reader has dropped the receiver
Emit(h, msgs) ==
    IF reader[h] = "done" THEN fromNode[h] ELSE fromNode[h] \o msgs

\* a mainloop that does not test had_error
Absorbing_Never(h) == FALSE

\* a had_error flag shared by the agents of all hosts
Absorbing_Shared(h) == \E g \in HostIds : agent[g].had_error

\* node.rs:37: `if had_error`
Absorbing(h) == agent[h].had_error

\* node.rs:36-39: `if had_error { continue; }`: the message is dropped
MainloopDrop(h) ==
    /\ agent[h].pc = "idle"
    /\ toNode[h] /= <<>>
    /\ Absorbing(h)
    /\ toNode' = [toNode EXCEPT ![h] = Tail(@)]
    /\ UNCHANGED <<cli, wire, loader, runs, uiRun, uiHost, dispatcher, worker, exitCh, fromNode,
                   closed, reader, agent, streams, invoked>>

\* node.rs:77: the executor is looked up in the catalog by data.name
FindAction(data) == data.name \in AllActions

\* command.rs:28-71: one thread per stream of the subprocess, each sending
\* the lines it reads
SpawnStreams(id, out, err) ==
    (IF out > 0 THEN {[id |-> id, stream |-> "stdout", left |-> out]} ELSE {})
    \cup
    (IF err > 0 THEN {[id |-> id, stream |-> "stderr", left |-> err]} ELSE {})

\* node.rs:41, 72-79 and command.rs:16-71: an Action arrives, its executor is
\* found: ActionStarted, then execute() starts the subprocess and the threads
\* that stream its output
MainloopAction(h) ==
    /\ agent[h].pc = "idle"
    /\ toNode[h] /= <<>>
    /\ ~Absorbing(h)
    /\ Head(toNode[h]).type = "Action"
    /\ LET data == Head(toNode[h]).data IN
        /\ FindAction(data)
        /\ toNode' = [toNode EXCEPT ![h] = Tail(@)]
        /\ fromNode' = [fromNode EXCEPT
                          ![h] = Emit(h, <<ActionStarted(data.id)>>)]
        /\ invoked' = [invoked EXCEPT ![h] = Append(@, data.id)]
        /\ agent' = [agent EXCEPT ![h].pc = "executing", ![h].cur = data]
        /\ \E out \in 0..data.input, err \in 0..data.input :
              streams' = [streams EXCEPT
                            ![h] = @ \cup SpawnStreams(data.id, out, err)]
    /\ UNCHANGED <<cli, wire, loader, runs, uiRun, uiHost, dispatcher, worker, exitCh, closed,
                   reader>>

\* node.rs:52-62: the messages of the Err arm, had_error set in between
FailureMessages(id) == <<ActionStdout(id, "error"), ActionResult(id, FALSE)>>

\* node.rs:42-51: the messages of the Ok arm
SuccessMessages(id) ==
    <<ActionStdout(id, "successfully"), ActionResult(id, TRUE)>>

\* node.rs:41, 77-81: no executor has the name: node_run_action returns Err
\* before ActionStarted is sent
MainloopActionNotFound(h) ==
    /\ agent[h].pc = "idle"
    /\ toNode[h] /= <<>>
    /\ ~Absorbing(h)
    /\ Head(toNode[h]).type = "Action"
    /\ LET data == Head(toNode[h]).data IN
        /\ ~FindAction(data)
        /\ toNode' = [toNode EXCEPT ![h] = Tail(@)]
        /\ fromNode' = [fromNode EXCEPT
                          ![h] = Emit(h, FailureMessages(data.id))]
        /\ agent' = [agent EXCEPT ![h].had_error = TRUE]
    /\ UNCHANGED <<cli, wire, loader, runs, uiRun, uiHost, dispatcher, worker, exitCh, closed,
                   reader, streams, invoked>>

\* command.rs:73 and node.rs:42-62: child.wait() returns, execute() returns
\* Ok or Err
ActionFinish(h) ==
    /\ agent[h].pc = "executing"
    /\ \E ok \in BOOLEAN :
        /\ fromNode' = [fromNode EXCEPT
                          ![h] = Emit(h, IF ok
                                   THEN SuccessMessages(agent[h].cur.id)
                                   ELSE FailureMessages(agent[h].cur.id))]
        /\ agent' = [agent EXCEPT
                       ![h].pc = "idle",
                       ![h].cur = NoAction,
                       ![h].had_error = ~ok]
    /\ UNCHANGED <<cli, wire, loader, runs, uiRun, uiHost, dispatcher, worker, exitCh, toNode,
                   closed, reader, streams, invoked>>

\* The success flag of NodeShutdown.  node.rs:65 builds the message without
\* naming the field; its value is the one of the agent's state table,
\* NodeShutdown{!had_error}.
ShutdownSuccess(had_error) == ~had_error

\* node.rs:64-66: the message the Shutdown arm sends
ShutdownMessages(had_error) == <<NodeShutdown(ShutdownSuccess(had_error))>>

\* node.rs:64-66: Shutdown arrives and no action has failed
MainloopShutdown(h) ==
    /\ agent[h].pc = "idle"
    /\ toNode[h] /= <<>>
    /\ ~Absorbing(h)
    /\ Head(toNode[h]).type = "Shutdown"
    /\ toNode' = [toNode EXCEPT ![h] = Tail(@)]
    /\ fromNode' = [fromNode EXCEPT
                      ![h] = Emit(h, ShutdownMessages(agent[h].had_error))]
    /\ UNCHANGED <<cli, wire, loader, runs, uiRun, uiHost, dispatcher, worker, exitCh, closed,
                   reader, agent, streams, invoked>>

\* command.rs:36-48, 57-69: a streaming thread reads a line and sends it
StreamLine(h) ==
    /\ reader[h] = "running"
    /\ \E s \in streams[h] :
        /\ fromNode' = [fromNode EXCEPT
                          ![h] = Emit(h, <<ActionOutputLine(s.id, s.stream)>>)]
        /\ streams' = [streams EXCEPT
                         ![h] = (@ \ {s}) \cup
                                (IF s.left > 1
                                   THEN {[s EXCEPT !.left = s.left - 1]}
                                   ELSE {})]
    /\ UNCHANGED <<cli, wire, loader, runs, uiRun, uiHost, dispatcher, worker, exitCh, toNode,
                   closed, reader, agent, invoked>>

\* stdio.rs:26-32: the reader of the remote transport ends (EOF or a decode
\* error, e.g. the ssh process dies): nothing more arrives from the agent
TransportClosed(h) ==
    /\ ~IsLocal(NodeOf(h).host)
    /\ reader[h] = "running"
    /\ ~closed[h]
    /\ closed' = [closed EXCEPT ![h] = TRUE]
    /\ agent' = [agent EXCEPT ![h] = [pc |-> "killed", had_error |-> FALSE,
                                      cur |-> NoAction]]
    /\ streams' = [streams EXCEPT ![h] = {}]
    /\ toNode' = [toNode EXCEPT ![h] = <<>>]
    /\ fromNode' = [fromNode EXCEPT ![h] = <<>>]
    /\ UNCHANGED <<cli, wire, loader, runs, uiRun, uiHost, dispatcher, worker, exitCh, reader,
                   invoked>>

\* ------------------------------------------------------- specifications
\* every step of the engine but the streaming of subprocess output
QuietNext ==
    \/ DispatchRunStarted
    \/ RunExecuteSpawn
    \/ RunExecuteRecv
    \/ DispatchRunCompleted
    \/ \E h \in HostIds : NodeExecuteStartFailed(h)
    \/ \E h \in HostIds : NodeExecute(h)
    \/ \E h \in HostIds : ReaderForward(h)
    \/ \E h \in HostIds : ReaderStreamEnded(h)
    \/ \E h \in HostIds : MainloopDrop(h)
    \/ \E h \in HostIds : MainloopAction(h)
    \/ \E h \in HostIds : MainloopActionNotFound(h)
    \/ \E h \in HostIds : ActionFinish(h)
    \/ \E h \in HostIds : MainloopShutdown(h)
    \/ \E h \in HostIds : TransportClosed(h)

Next ==
    \/ QuietNext
    \/ \E h \in HostIds : StreamLine(h)

\* one host, subprocess output included
Spec == Init /\ [][Next]_vars

\* the runs of an invocation.  No action of RunInit writes output, so no
\* StreamLine step is ever enabled and QuietNext is Next on these behaviours
RunSpec == RunInit /\ [][QuietNext]_vars

\* the action lists of HostsInit: two actions, the second named by its kind
\* or by a label
HostsPlans == {<<"copy", "copy">>, <<"copy", "deploy">>}

\* one run on several hosts, the first of them localhost; no action writes
\* output
HostsInit ==
    \E names \in HostsPlans :
        InitState(MkRuns(1, Inventory(NumHosts, 1), names,
                         [j \in 1..Len(names) |-> 0]))

HostsSpec == HostsInit /\ [][QuietNext]_vars

\* the NodeMessages a peer can write to the input of the agent of host h
AgentInputs(h) ==
    {MsgAction(NodeOf(h).actions[j]) : j \in 1..Len(NodeOf(h).actions)}
        \cup {MsgShutdown}

\* the sequences of at most n elements of S
SeqsUpTo(S, n) == UNION {[1..k -> S] : k \in 0..n}

\* lapon-node/node.rs:24-31: the agent on its own.  Its input holds any
\* sequence of NodeMessages; what it sends stays in fromNode, the output of
\* the process.
AgentInit ==
    \E names \in [1..2 -> PlanNames] :
        /\ runs = MkRuns(1, Inventory(1, 1), names, [j \in 1..2 |-> 0])
        /\ uiRun = <<RunStarted(1)>>
        /\ uiHost = [h \in HostIds |-> <<>>]
        /\ dispatcher = [pc |-> "recv", run |-> 1, recv |-> 1, errors |-> 0]
        /\ worker = [h \in HostIds |-> "returned"]
        /\ exitCh = [h \in HostIds |-> "empty"]
        /\ toNode \in [HostIds -> SeqsUpTo(AgentInputs(<<1, 1>>), MaxMsgs)]
        /\ fromNode = [h \in HostIds |-> <<>>]
        /\ closed = [h \in HostIds |-> FALSE]
        /\ reader = [h \in HostIds |-> "running"]
        /\ agent = [h \in HostIds |->
                      [pc |-> "idle", had_error |-> FALSE, cur |-> NoAction]]
        /\ streams = [h \in HostIds |-> {}]
        /\ invoked = [h \in HostIds |-> <<>>]
        /\ loader = [input |-> <<>>, pos |-> 1,
                     rb |-> [groups |-> <<>>, imports |-> <<>>],
                     resolved |-> <<>>, runs |-> <<>>, error |-> ""]
        /\ cli = NoCli
        /\ wire = NoWire

\* lapon-node/node.rs:33-84: the steps of the mainloop
AgentNext ==
    \/ \E h \in HostIds : MainloopDrop(h)
    \/ \E h \in HostIds : MainloopAction(h)
    \/ \E h \in HostIds : MainloopActionNotFound(h)
    \/ \E h \in HostIds : ActionFinish(h)
    \/ \E h \in HostIds : MainloopShutdown(h)

AgentSpec == AgentInit /\ [][AgentNext]_vars

\* ------------------------------------------ runbook loader (runbook.rs)
\* hcl::Value, by its type: the strings and the booleans an attribute holds
Str(s) == [t |-> "string", v |-> s]
Bool(b) == [t |-> "bool", v |-> IF b THEN "true" ELSE "false"]

\* HashMap::new()
EmptyMap == [k \in {} |-> {}]

\* group.rs:15-20: GroupConfig.imported is None
NoPath == ""

\* group.rs:9-13: HostOrGroupConfig { host: Host(name) | Group(name), vars }
HostEntry(name, entry_vars) ==
    [kind |-> "host", name |-> name, vars |-> entry_vars]
GroupEntry(name, entry_vars) ==
    [kind |-> "group", name |-> name, vars |-> entry_vars]

\* the blocks of a runbook file: `group "name" { vars; entries }` and
\* `run "name" { ... }`
GroupBlock(name, group_vars, entries) ==
    [kind |-> "group", name |-> name, vars |-> group_vars,
     entries |-> entries]
RunBlock(name) == [kind |-> "run", name |-> name, actions |-> <<>>]

\* Result<Vec<Node>>
Ok(hosts) == [ok |-> TRUE, hosts |-> hosts, msg |-> ""]
Err(msg) == [ok |-> FALSE, hosts |-> <<>>, msg |-> msg]

\* node.rs:40-46: the string value of vars["remote_user"], None (<<>>) when
\* the key is absent or not a string
RemoteUserOf(node_vars) ==
    IF "remote_user" \in DOMAIN node_vars /\ node_vars["remote_user"].t = "string"
        THEN <<node_vars["remote_user"].v>>
        ELSE <<>>

\* node.rs:47-50: the bool value of vars["become"], false when the key is
\* absent or not a bool
BecomeOf(node_vars) ==
    IF "become" \in DOMAIN node_vars /\ node_vars["become"].t = "bool"
        THEN node_vars["become"].v = "true"
        ELSE FALSE

\* node.rs:31-56: Node::new (the fresh id is left out: ids play no part in
\* resolution)
NodeNew(host, node_vars) ==
    [host |-> host,
     vars |-> node_vars,
     remote_user |-> RemoteUserOf(node_vars),
     become_ |-> BecomeOf(node_vars)]

\* a fill that overwrites what the node has: the outer layer wins
FillVars_OuterWins(host, layer) ==
    [host EXCEPT
        !.vars = [k \in DOMAIN host.vars \cup DOMAIN layer |->
                     IF k \in DOMAIN layer THEN layer[k] ELSE host.vars[k]],
        !.remote_user = RemoteUserOf(layer)]

\* runbook.rs:527-538, 544-555: `for (key, val) in layer`: a key the node
\* lacks is inserted; remote_user is promoted when the node has none
FillVars(host, layer) ==
    LET new == DOMAIN layer \ DOMAIN host.vars IN
        [host EXCEPT
            !.vars = [k \in DOMAIN host.vars \cup new |->
                         IF k \in DOMAIN host.vars THEN host.vars[k]
                                                   ELSE layer[k]],
            !.remote_user =
                IF "remote_user" \in new /\ host.remote_user = <<>>
                    THEN IF layer["remote_user"].t = "string"
                            THEN <<layer["remote_user"].v>>
                            ELSE <<>>
                    ELSE @]

\* runbook.rs:526, 543: `for host in local_hosts.iter_mut()`
FillAll(local_hosts, layer) ==
    [i \in 1..Len(local_hosts) |-> FillVars(local_hosts[i], layer)]

\* the hosts of an entry put in front of those of the entries before it
AppendHosts_Front(hosts, local_hosts) == local_hosts \o hosts

\* runbook.rs:557: hosts.append(&mut local_hosts)
AppendHosts(hosts, local_hosts) == hosts \o local_hosts

RECURSIVE HostsFromGroup(_, _)
RECURSIVE HostsFromEntries(_, _, _, _)

\* runbook.rs:515-559: the loop over group.hosts, from entry k on, in the
\* scope `runbook`
HostsFromEntries(runbook, group, k, hosts) ==
    IF k > Len(group.hosts) THEN Ok(hosts)
    ELSE
        LET host_or_group == group.hosts[k]
            inner == HostsFromGroup(runbook, host_or_group.name)
            local_hosts ==
                IF host_or_group.kind = "host"
                    THEN Ok(<<NodeNew(host_or_group.name,
                                      host_or_group.vars)>>)
                ELSE IF inner.ok
                    THEN Ok(FillAll(inner.hosts, host_or_group.vars))
                ELSE inner
        IN  IF ~local_hosts.ok THEN local_hosts
            ELSE HostsFromEntries(
                    runbook, group, k + 1,
                    AppendHosts(hosts,
                                FillAll(local_hosts.hosts, group.vars)))

\* runbook.rs:501-560: hosts_from_group
HostsFromGroup(rb, g) ==
    IF g \notin DOMAIN rb.groups THEN Err("hosts doesn't have group")
    ELSE
        LET group == rb.groups[g] IN
            IF group.imported = NoPath
                THEN HostsFromEntries(rb, group, 1, <<>>)
            ELSE IF group.imported \notin DOMAIN rb.imports
                THEN Err("can't find imported")
            ELSE HostsFromEntries(rb.imports[group.imported], group, 1, <<>>)

\* runbook.rs:430-438: the first host entry of the group with that name
FirstHostEntry(group, name) ==
    LET ks == {k \in 1..Len(group.hosts) :
                  /\ group.hosts[k].kind = "host"
                  /\ group.hosts[k].name = name}
    IN  IF ks = {} THEN <<>>
        ELSE <<group.hosts[CHOOSE k \in ks : \A k2 \in ks : k <= k2]>>

\* runbook.rs:425-444: hosts_from_name.  `self.groups.values()` iterates a
\* HashMap, in no specified order: the results are those of any group that
\* has a host entry of that name
HostsFromName(rb, name) ==
    IF name \in DOMAIN rb.groups THEN {HostsFromGroup(rb, name)}
    ELSE
        LET found == {g \in DOMAIN rb.groups :
                         FirstHostEntry(rb.groups[g], name) /= <<>>}
        IN  IF found = {} THEN {Err("can't find host with name")}
            ELSE {Ok(<<NodeNew(name,
                               FirstHostEntry(rb.groups[g], name)[1].vars)>>)
                     : g \in found}

RECURSIVE DedupFrom(_, _, _)
\* runbook.rs:123-130: a node is pushed unless a node with its host string
\* is in the list
DedupFrom(nodes, k, hosts) ==
    IF k > Len(nodes) THEN hosts
    ELSE DedupFrom(nodes, k + 1,
            IF \E i \in 1..Len(hosts) : hosts[i].host = nodes[k].host
                THEN hosts
                ELSE Append(hosts, nodes[k]))

Reverse(s) == [k \in 1..Len(s) |-> s[Len(s) + 1 - k]]

\* a dedup that keeps the last node of a host string
Dedup_KeepLast(nodes) == Reverse(DedupFrom(Reverse(nodes), 1, <<>>))

Dedup(nodes) == DedupFrom(nodes, 1, <<>>)

\* runbook.rs:133-141: the node of a run without hosts
LocalhostNode ==
    [host |-> "localhost", vars |-> EmptyMap, remote_user |-> <<>>,
     become_ |-> FALSE]

\* a run that keeps its empty host list
HostsOrLocalhost_Keep(hosts) == hosts

\* runbook.rs:132-144
HostsOrLocalhost(hosts) == IF hosts = <<>> THEN <<LocalhostNode>> ELSE hosts

\* a nested group entry may name a group that is not declared
EntryError_Undeclared(groups, group_name, entry) ==
    IF entry.kind = "group" /\ entry.name = group_name
        THEN "group can't point to itself"
        ELSE ""

\* runbook.rs:234-273: a nested group entry names another group, declared
\* before it
EntryError(groups, group_name, entry) ==
    IF entry.kind /= "group" THEN ""
    ELSE IF entry.name = group_name THEN "group can't point to itself"
    ELSE IF entry.name \notin DOMAIN groups THEN "group doesn't exist"
    ELSE ""

\* runbook.rs:184-198: the first entry that is refused
FirstEntryError(groups, block) ==
    LET bad == {k \in 1..Len(block.entries) :
                   EntryError(groups, block.name, block.entries[k]) /= ""}
    IN  IF bad = {} THEN ""
        ELSE EntryError(groups, block.name,
                        block.entries[CHOOSE k \in bad :
                                         \A k2 \in bad : k <= k2])

\* runbook.rs:170-175, 184-198: why parse_group refuses the block
GroupError(groups, block) ==
    IF block.name \in DOMAIN groups THEN "group name already exists"
    ELSE FirstEntryError(groups, block)

\* runbook.rs:173, 258, 267: the span of the error, as <<block, entry>>: the
\* label of the group block (entry 0), or the label of the first entry that
\* is refused
GroupErrorSpan(groups, block, at) ==
    IF block.name \in DOMAIN groups THEN <<at, 0>>
    ELSE <<at, CHOOSE k \in 1..Len(block.entries) :
                  /\ EntryError(groups, block.name, block.entries[k]) /= ""
                  /\ \A k2 \in 1..k - 1 :
                        EntryError(groups, block.name, block.entries[k2]) = "">>

\* runbook.rs:177-200: the GroupConfig of the block
GroupConfig(block) ==
    [hosts |-> block.entries, vars |-> block.vars, imported |-> NoPath]

\* runbook.rs:200: self.groups.insert(name, group_config)
Insert(map, key, val) ==
    [k \in DOMAIN map \cup {key} |-> IF k = key THEN val ELSE map[k]]

\* ------------------------------- action catalog and parameter schema
\* hcl::Value::Array
Arr(items) == [t |-> "array", v |-> "", items |-> items]

\* an expression that is a variable reference
Var(name) == [t |-> "var", v |-> name]

\* Result<SpannedValue, Error>
ValOk(value) == [ok |-> TRUE, value |-> value, msg |-> ""]
ValErr(msg) == [ok |-> FALSE, value |-> Arr(<<>>), msg |-> msg]

RECURSIVE FromExpression(_, _)
RECURSIVE FromExpressions(_, _, _, _)

\* value.rs:115-121: the items of an array expression, in order; the first
\* item that fails is the error
FromExpressions(ctx, exprs, k, values) ==
    IF k > Len(exprs) THEN ValOk(Arr(values))
    ELSE LET value == FromExpression(ctx, exprs[k]) IN
            IF ~value.ok THEN value
            ELSE FromExpressions(ctx, exprs, k + 1,
                                 Append(values, value.value))

\* value.rs:108-131: SpannedValue::from_expression.  A literal is its value;
\* a variable is its value in ctx, an error when ctx does not declare it
FromExpression(ctx, expr) ==
    IF expr.t = "array" THEN FromExpressions(ctx, expr.items, 1, <<>>)
    ELSE IF expr.t = "var"
        THEN IF expr.v \in DOMAIN ctx THEN ValOk(ctx[expr.v])
             ELSE ValErr("undefined variable " \o expr.v)
    ELSE ValOk(expr)

\* action/mod.rs:70-75: ActionParamType
TString == [type |-> "String", options |-> <<>>]
TBool == [type |-> "Bool", options |-> <<>>]
TList == [type |-> "List", options |-> <<>>]
TEnum(options) == [type |-> "Enum", options |-> options]

\* action/mod.rs:295-300: ActionParamValue
PString(s) == [p |-> "String", s |-> s, items |-> <<>>]
PBool(s) == [p |-> "Bool", s |-> s, items |-> <<>>]
PList(items) == [p |-> "List", s |-> "", items |-> items]
PBase(s) == [p |-> "Base", s |-> s, items |-> <<>>]

\* action/mod.rs:39-48, 92-96: every item of the array is a string
AllStrings(value) ==
    \A i \in 1..Len(value.items) : value.items[i].t = "string"

\* action/mod.rs:78-110: ActionParamType::parse_attr, Some(value) as
\* <<value>> and None as <<>>
ParseAttr(type_, value) ==
    IF type_.type = "String"
        THEN IF value.t = "string" THEN <<PString(value.v)>> ELSE <<>>
    ELSE IF type_.type = "Bool"
        THEN IF value.t = "bool" THEN <<PBool(value.v)>> ELSE <<>>
    ELSE IF type_.type = "List"
        THEN IF value.t = "array" /\ AllStrings(value)
                THEN <<PList([i \in 1..Len(value.items) |->
                                 value.items[i].v])>>
                ELSE <<>>
    ELSE IF value.t = "string"
            /\ \E i \in 1..Len(type_.options) : type_.options[i] = value.v
        THEN <<PBase(value.v)>>
    ELSE <<>>

RECURSIVE JoinFrom(_, _, _)
\* itertools join
JoinFrom(strings, k, sep) ==
    IF k > Len(strings) THEN ""
    ELSE IF k = Len(strings) THEN strings[k]
    ELSE strings[k] \o sep \o JoinFrom(strings, k + 1, sep)

\* action/mod.rs:146-161, 393-399: Display of a type
TypeName(type_) ==
    IF type_.type = "String" THEN "String"
    ELSE IF type_.type = "Bool" THEN "Boolean"
    ELSE IF type_.type = "List" THEN "List of String"
    ELSE "Enum of " \o
         JoinFrom([i \in 1..Len(type_.options) |->
                      "\"" \o type_.options[i] \o "\""], 1, ", ")

\* action/mod.rs:163-168: ActionParamDoc
ActionParamDoc(name, required, type_) ==
    [name |-> name, required |-> required, type_ |-> type_]

\* Result<Option<ActionParamValue>, Error>
SlotOk(slot) == [ok |-> TRUE, slot |-> slot, msg |-> ""]
SlotErr(msg) == [ok |-> FALSE, slot |-> <<>>, msg |-> msg]

\* action/mod.rs:178-182: the value under the first declared type that
\* accepts it
FirstMatch(types, value) ==
    LET matching == {i \in 1..Len(types) : ParseAttr(types[i], value) /= <<>>}
    IN  IF matching = {} THEN <<>>
        ELSE ParseAttr(types[CHOOSE i \in matching :
                                \A i2 \in matching : i <= i2], value)

\* action/mod.rs:170-196: ActionParamDoc::parse_attrs
ParamParseAttrs(param, attrs) ==
    IF param.name \in DOMAIN attrs
        THEN IF FirstMatch(param.type_, attrs[param.name]) /= <<>>
                THEN SlotOk(FirstMatch(param.type_, attrs[param.name]))
                ELSE SlotErr(param.name \o " type should be " \o
                             JoinFrom([i \in 1..Len(param.type_) |->
                                          TypeName(param.type_[i])],
                                      1, " or "))
    ELSE IF param.required THEN SlotErr("can't find " \o param.name)
    ELSE SlotOk(<<>>)

\* Result<ActionParams, Error>
ParamsOk(values) == [ok |-> TRUE, values |-> values, msg |-> ""]
ParamsErr(msg) == [ok |-> FALSE, values |-> <<>>, msg |-> msg]

\* the error of the last declared parameter that fails
DocParseAttrs_LastError(params, attrs) ==
    LET failing == {i \in 1..Len(params) :
                       ~ParamParseAttrs(params[i], attrs).ok}
    IN  IF failing = {}
            THEN ParamsOk([i \in 1..Len(params) |->
                              ParamParseAttrs(params[i], attrs).slot])
            ELSE ParamsErr(ParamParseAttrs(
                    params[CHOOSE i \in failing :
                              \A i2 \in failing : i >= i2], attrs).msg)

\* action/mod.rs:234-243: ActionDoc::parse_attrs: one slot per declared
\* parameter, in declaration order; `?` returns the first error
DocParseAttrs(params, attrs) ==
    LET failing == {i \in 1..Len(params) :
                       ~ParamParseAttrs(params[i], attrs).ok}
    IN  IF failing = {}
            THEN ParamsOk([i \in 1..Len(params) |->
                              ParamParseAttrs(params[i], attrs).slot])
            ELSE ParamsErr(ParamParseAttrs(
                    params[CHOOSE i \in failing :
                              \A i2 \in failing : i <= i2], attrs).msg)

\* copy.rs:27-49: CopyAction::doc
CopyDoc ==
    <<ActionParamDoc("src", TRUE, <<TString>>),
      ActionParamDoc("dest", TRUE, <<TString>>)>>

\* package/mod.rs:121-150: PackageAction::doc
PackageDoc ==
    <<ActionParamDoc("name", TRUE, <<TString, TList>>),
      ActionParamDoc("state", TRUE,
                     <<TEnum(<<"present", "absent", "latest">>)>>)>>

\* file.rs:112-132: FileAction::doc; the state is declared a String
FileDoc ==
    <<ActionParamDoc("path", TRUE, <<TString>>),
      ActionParamDoc("state", FALSE, <<TString>>)>>

\* action/mod.rs:22: Action::doc of the kind
ActionDoc(kind) ==
    IF kind = "copy" THEN CopyDoc
    ELSE IF kind = "package" THEN PackageDoc
    ELSE FileDoc

\* the files of the working directory that a copy may read
LocalFiles == {"app.conf"}

\* Result<Vec<u8>, Error>: the payload, by the fields it serializes
InputOk(input) == [ok |-> TRUE, input |-> input, msg |-> ""]
InputErr(msg) == [ok |-> FALSE, input |-> <<>>, msg |-> msg]

\* copy.rs:51-96: CopyAction::input reads the source file into the payload
CopyInput(attrs) ==
    IF "src" \notin DOMAIN attrs THEN InputErr("can't find src")
    ELSE IF attrs["src"].t /= "string" THEN InputErr("src isn't string")
    ELSE IF attrs["src"].v \notin LocalFiles
        THEN InputErr("can't find src file")
    ELSE IF "dest" \notin DOMAIN attrs THEN InputErr("can't find dest")
    ELSE IF attrs["dest"].t /= "string" THEN InputErr("dest isn't string")
    ELSE InputOk([src |-> attrs["src"].v, content |-> attrs["src"].v,
                  dest |-> attrs["dest"].v])

\* a string that is not taken as a package name
PackageNames_DropString(name) ==
    IF name.t = "string" THEN <<>>
    ELSE [i \in 1..Len(name.items) |-> name.items[i].v]

\* package/mod.rs:57-70: a string is the list that holds it
PackageNames(name) ==
    IF name.t = "string" THEN <<name.v>>
    ELSE [i \in 1..Len(name.items) |-> name.items[i].v]

\* package/mod.rs:41-102: PackageAction::input
PackageInput(attrs) ==
    IF "name" \notin DOMAIN attrs THEN InputErr("can't find name")
    ELSE IF attrs["name"].t \notin {"string", "array"}
        THEN InputErr("name should be either a string or a list")
    ELSE IF attrs["name"].t = "array" /\ ~AllStrings(attrs["name"])
        THEN InputErr("name should be a string")
    ELSE IF "state" \notin DOMAIN attrs THEN InputErr("can't find state")
    ELSE IF attrs["state"].t /= "string"
        THEN InputErr("state should be a string")
    ELSE IF attrs["state"].v \notin {"present", "absent", "latest"}
        THEN InputErr("state is invalid")
    ELSE InputOk([name |-> PackageNames(attrs["name"]),
                  state |-> attrs["state"].v])

\* file.rs:39-84: FileAction::input; the state defaults to file
FileInput(attrs) ==
    IF "path" \notin DOMAIN attrs THEN InputErr("can't find path")
    ELSE IF attrs["path"].t /= "string"
        THEN InputErr("path should be a string")
    ELSE IF "state" \notin DOMAIN attrs
        THEN InputOk([path |-> attrs["path"].v, state |-> "file"])
    ELSE IF attrs["state"].t /= "string"
        THEN InputErr("state should be a string")
    ELSE IF attrs["state"].v \notin {"file", "absent", "directory"}
        THEN InputErr("state is invalid")
    ELSE InputOk([path |-> attrs["path"].v, state |-> attrs["state"].v])

\* action/mod.rs:24: Action::input of the kind
ActionInput(kind, attrs) ==
    IF kind = "copy" THEN CopyInput(attrs)
    ELSE IF kind = "package" THEN PackageInput(attrs)
    ELSE FileInput(attrs)

\* ------------------------------------------ action plans (parse_actions)
\* an `action "kind" { name = label; params { ... } }` block: label is <<>>
\* or <<expression>>, params maps the attributes of the params block to
\* their expressions
ActionBlock(action, label, params) ==
    [kind |-> "action", action |-> action, label |-> label,
     params |-> params]

\* `job "name" { actions }`
JobBlock(name, actions) ==
    [kind |-> "job", name |-> name, actions |-> actions]

\* `run "name" { actions }`
RunActions(name, actions) ==
    [kind |-> "run", name |-> name, actions |-> actions]

\* job.rs:13-16, runbook.rs:579-582: Job { block, imported }
Job(block, imported) == [block |-> block, imported |-> imported]

\* Result<Vec<ActionData>, Error>.  `overflow`: the recursion did not return
\* within MaxDepth nested jobs; `deepest`: the deepest nesting entered
PlanOk(actions, deepest) ==
    [ok |-> TRUE, actions |-> actions, msg |-> "", overflow |-> FALSE,
     deepest |-> deepest]
PlanErr(msg, deepest) ==
    [ok |-> FALSE, actions |-> <<>>, msg |-> msg, overflow |-> FALSE,
     deepest |-> deepest]
PlanOverflow(deepest) ==
    [ok |-> FALSE, actions |-> <<>>, msg |-> "", overflow |-> TRUE,
     deepest |-> deepest]

Max(a, b) == IF a >= b THEN a ELSE b

\* runbook.rs:619-636: the `name` attribute of the action, a string
ActionLabel(ctx, block) ==
    IF block.label = <<>> THEN ValOk(Str(""))
    ELSE LET name == FromExpression(ctx, block.label[1]) IN
            IF ~name.ok THEN name
            ELSE IF name.value.t /= "string"
                THEN ValErr("name should be a string")
            ELSE name

\* runbook.rs:643-653: the attributes of the params block, evaluated in ctx;
\* <<>> when one of them fails
ActionAttrs(ctx, block) ==
    IF \E a \in DOMAIN block.params :
          ~FromExpression(ctx, block.params[a]).ok
        THEN <<>>
        ELSE <<[a \in DOMAIN block.params |->
                   FromExpression(ctx, block.params[a]).value]>>

\* runbook.rs:646-650: the error of the attribute that fails
ActionAttrsError(ctx, block) ==
    FromExpression(ctx, block.params[
        CHOOSE a \in DOMAIN block.params :
            ~FromExpression(ctx, block.params[a]).ok]).msg

\* runbook.rs:656-677: why the job of an `action "job"` cannot be expanded
JobError(rb, attrs) ==
    IF "name" \notin DOMAIN attrs THEN "job doesn't have name in params"
    ELSE IF attrs["name"].t /= "string" THEN "job name should be a string"
    ELSE IF attrs["name"].v \notin DOMAIN rb.jobs THEN "can't find job name"
    ELSE IF /\ rb.jobs[attrs["name"].v].imported /= NoPath
            /\ rb.jobs[attrs["name"].v].imported \notin DOMAIN rb.imports
        THEN "can't find imported job"
    ELSE ""

\* runbook.rs:670-677: the runbook in whose scope the job is expanded
JobScope(rb, job) ==
    IF job.imported /= NoPath THEN rb.imports[job.imported] ELSE rb

\* runbook.rs:690-708: the ActionData of the block once parse_attrs gave
\* `params` and input gave `input`; `?` returns the error of the first
ActionOf(block, label, params, input, depth) ==
    IF ~params.ok THEN PlanErr(params.msg, depth)
    ELSE IF ~input.ok THEN PlanErr(input.msg, depth)
    ELSE PlanOk(<<ActionData(<<>>,
                             IF label = "" THEN block.action ELSE label,
                             block.action, input.input)>>,
                depth)

\* runbook.rs:681-708: an action of the catalog is validated against its
\* schema and compiled to its payload (the fresh id is left out)
CompileAction(block, label, attrs, depth) ==
    IF block.action \notin AllActions
        THEN PlanErr("action " \o block.action \o " can't be found", depth)
    ELSE ActionOf(block, label,
                  DocParseAttrs(ActionDoc(block.action), attrs),
                  ActionInput(block.action, attrs), depth)

\* the actions of a job put in front of the actions parsed before the call
Splice_Front(actions, job_actions) == job_actions \o actions

\* runbook.rs:679, 703: actions.append / actions.push
Splice(actions, more) == actions \o more

RECURSIVE ParseActions(_, _, _, _, _, _)
RECURSIVE ParseRest(_, _, _, _, _, _, _)

\* runbook.rs:594-710: one action block, at job nesting `depth`
ParseAction(rb, ctx, block, depth) ==
    LET name == ActionLabel(ctx, block)
        attrs == ActionAttrs(ctx, block)
    IN  IF ~name.ok THEN PlanErr(name.msg, depth)
        ELSE IF attrs = <<>>
            THEN PlanErr(ActionAttrsError(ctx, block), depth)
        ELSE IF block.action /= "job"
            THEN CompileAction(block, name.value.v, attrs[1], depth)
        ELSE IF JobError(rb, attrs[1]) /= ""
            THEN PlanErr(JobError(rb, attrs[1]), depth)
        ELSE IF depth >= MaxDepth THEN PlanOverflow(depth)
        ELSE LET job == rb.jobs[attrs[1]["name"].v] IN
                ParseActions(JobScope(rb, job), ctx, job.block.actions, 1,
                             depth + 1, <<>>)

\* runbook.rs:594-710: the loop goes on after block k gave `one`: its error
\* ends the loop, its actions are added in place
ParseRest(rb, ctx, blocks, k, depth, actions, one) ==
    IF ~one.ok THEN one
    ELSE [ParseActions(rb, ctx, blocks, k + 1, depth,
                       Splice(actions, one.actions))
            EXCEPT !.deepest = Max(@, one.deepest)]

\* runbook.rs:588-714: parse_actions, from block k on, with the actions
\* parsed so far
ParseActions(rb, ctx, blocks, k, depth, actions) ==
    IF k > Len(blocks) THEN PlanOk(actions, depth)
    ELSE ParseRest(rb, ctx, blocks, k, depth, actions,
                   ParseAction(rb, ctx, blocks[k], depth))

\* Result<Run, Error>: the action lists of the hosts of the run
RunOk(plans, deepest) ==
    [ok |-> TRUE, hosts |-> <<>>, plans |-> plans, msg |-> "",
     overflow |-> FALSE, deepest |-> deepest]

RECURSIVE FromBlock(_, _, _, _, _, _)

\* run.rs:98-107: host k gets `actions`, or their error ends the run
HostActions(rb, block, hosts, k, plans, deepest, actions) ==
    IF ~actions.ok
        THEN [ok |-> FALSE, hosts |-> <<>>, plans |-> <<>>,
              msg |-> actions.msg, overflow |-> actions.overflow,
              deepest |-> Max(deepest, actions.deepest)]
    ELSE FromBlock(rb, block, hosts, k + 1, Append(plans, actions.actions),
                   Max(deepest, actions.deepest))

\* run.rs:58-110: the actions of every host of the run, parsed with the vars
\* of the host as variables (action.rs:25-28), from host k on
FromBlock(rb, block, hosts, k, plans, deepest) ==
    IF k > Len(hosts) THEN RunOk(plans, deepest)
    ELSE HostActions(rb, block, hosts, k, plans, deepest,
                     ParseActions(rb, hosts[k].vars, block.actions, 1, 0,
                                  <<>>))

\* runbook.rs:145: Run::from_block on the hosts of the run
RunOnHosts(rb, block, hosts) ==
    [FromBlock(rb, block, hosts, 1, <<>>, 0) EXCEPT !.hosts = hosts]

\* runbook.rs:123-146: the run of the block once hosts_from_name returned
\* res: its hosts, deduplicated or the localhost node, and their action lists
RunResult(rb, block, res) ==
    IF ~res.ok
        THEN [ok |-> FALSE, hosts |-> <<>>, plans |-> <<>>, msg |-> res.msg,
              overflow |-> FALSE, deepest |-> 0]
    ELSE RunOnHosts(rb, block, HostsOrLocalhost(Dedup(res.hosts)))

\* ------------------------------------------------ imports (parse_use)
\* `use "path" { job "name" { as = alias }; group "name" { as = alias } }`:
\* exports is the list of its nested blocks, alias "" when there is no `as`
UseBlock(path, exports) ==
    [kind |-> "use", name |-> path, exports |-> exports]
UseEntry(kind, name, alias) == [kind |-> kind, name |-> name, as |-> alias]

\* Path::canonicalize: `..` components are collapsed; every other path of
\* the model is canonical
Canonicalize(path) == IF path = "sub/../lib.tr" THEN "lib.tr" ELSE path

\* runbook.rs:57-65: Runbook::new
NewRunbook(path, level) ==
    [path |-> path, level |-> level, groups |-> EmptyMap, jobs |-> EmptyMap,
     imports |-> EmptyMap, runs |-> <<>>]

\* runs are parsed in every runbook
ParseRunFlag_Always(level) == TRUE

\* core.rs:708-709, runbook.rs:326-327: the root runbook has level 0 and is
\* parsed with parse_run = true, an imported one with parse_run = false
ParseRunFlag(level) == level = 0

\* runbook.rs:150-203: parse_group in a runbook under load
GroupStep(ld, block) ==
    IF GroupError(ld.rb.groups, block) /= ""
        THEN [ld EXCEPT !.error = GroupError(ld.rb.groups, block)]
        ELSE [ld EXCEPT !.rb.groups = Insert(@, block.name,
                                             GroupConfig(block))]

\* a job block replaces the job of its name
JobStep_Overwrite(ld, block) ==
    [ld EXCEPT !.rb.jobs = Insert(@, block.name, Job(block, NoPath))]

\* runbook.rs:562-586: parse_job
JobStep(ld, block) ==
    IF block.name \in DOMAIN ld.rb.jobs
        THEN [ld EXCEPT !.error = "job name already exists"]
        ELSE [ld EXCEPT !.rb.jobs = Insert(@, block.name,
                                           Job(block, NoPath))]

\* runbook.rs:100-148: parse_run in a runbook under load, for every result
\* hosts_from_name may give
RunStep(ld, block) ==
    {IF run.overflow
        THEN [ld EXCEPT !.overflow = TRUE,
                        !.jobdepth = Max(@, run.deepest)]
     ELSE IF ~run.ok
        THEN [ld EXCEPT !.error = run.msg,
                        !.jobdepth = Max(@, run.deepest)]
     ELSE [ld EXCEPT !.rb.runs = Append(@, [hosts |-> run.hosts,
                                            plans |-> run.plans]),
                     !.jobdepth = Max(@, run.deepest)]
     : run \in {RunResult(ld.rb, block, res) :
                   res \in HostsFromName(ld.rb, block.name)}}

\* runbook.rs:400, 476: the name under which the job or group is imported
ImportedName(entry) == IF entry.as /= "" THEN entry.as ELSE entry.name

\* runbook.rs:370-423: parse_use_job
ParseUseJob(ld, imported, entry) ==
    IF ImportedName(entry) \in DOMAIN ld.rb.jobs
        THEN [ld EXCEPT !.error = "job name already exists"]
    ELSE IF entry.name \notin DOMAIN imported.jobs
        THEN [ld EXCEPT !.error = "job name can't be imported, it doesn't exit in the imported runbook"]
    ELSE [ld EXCEPT !.rb.jobs =
            Insert(@, ImportedName(entry),
                   [imported.jobs[entry.name] EXCEPT
                       !.imported = imported.path])]

\* runbook.rs:446-499: parse_use_group
ParseUseGroup(ld, imported, entry) ==
    IF ImportedName(entry) \in DOMAIN ld.rb.groups
        THEN [ld EXCEPT !.error = "group name already exists"]
    ELSE IF entry.name \notin DOMAIN imported.groups
        THEN [ld EXCEPT !.error = "group name can't be imported, it doesn't exit in the imported runbook"]
    ELSE [ld EXCEPT !.rb.groups =
            Insert(@, ImportedName(entry),
                   [imported.groups[entry.name] EXCEPT
                       !.imported = imported.path])]

RECURSIVE ParseUseEntries(_, _, _, _)
\* runbook.rs:351-363: the nested blocks of the use block, from entry k on
ParseUseEntries(ld, imported, entries, k) ==
    IF k > Len(entries) \/ ld.error /= "" THEN ld
    ELSE ParseUseEntries(
            IF entries[k].kind = "job"
                THEN ParseUseJob(ld, imported, entries[k])
                ELSE ParseUseGroup(ld, imported, entries[k]),
            imported, entries, k + 1)

\* runbook.rs:327-367: parse_use once the imported runbook `sub` is parsed
UseFinish(ld, block, sub) ==
    LET read == [ld EXCEPT !.reads = sub.reads,
                           !.jobdepth = Max(@, sub.jobdepth)]
        path == Canonicalize(block.name)
    IN  IF sub.overflow THEN [read EXCEPT !.overflow = TRUE]
        ELSE IF sub.error /= "" THEN [read EXCEPT !.error = sub.error]
        ELSE IF path \in DOMAIN ld.rb.imports
            THEN [read EXCEPT !.error = "path already imported"]
        ELSE LET used == ParseUseEntries(read, sub.rb, block.exports, 1) IN
                IF used.error /= "" THEN used
                ELSE [used EXCEPT !.rb.imports = Insert(@, path, sub.rb)]

RECURSIVE ParseFrom(_, _, _, _)

\* runbook.rs:301-368: parse_use.  The file is read and parsed at level + 1
\* before the imports of this runbook are looked up; the load does not
\* return when the chain of imports goes on beyond MaxLevel
UseStep(files, ld, block) ==
    IF Canonicalize(block.name) \notin DOMAIN files
        THEN {[ld EXCEPT !.error = "can't read runbook"]}
    ELSE IF ld.rb.level >= MaxLevel THEN {[ld EXCEPT !.overflow = TRUE]}
    ELSE {UseFinish(ld, block, sub) :
            sub \in ParseFrom(
                files,
                [rb |-> NewRunbook(block.name, ld.rb.level + 1),
                 error |-> "", overflow |-> FALSE, jobdepth |-> 0,
                 reads |-> Append(ld.reads,
                                  [file |-> Canonicalize(block.name),
                                   level |-> ld.rb.level + 1])],
                files[Canonicalize(block.name)], 1)}

\* runbook.rs:76-93: one block of the body
BlockStep(files, ld, block) ==
    IF block.kind = "use" THEN UseStep(files, ld, block)
    ELSE IF block.kind = "group" THEN {GroupStep(ld, block)}
    ELSE IF block.kind = "job" THEN {JobStep(ld, block)}
    ELSE IF ParseRunFlag(ld.rb.level) THEN RunStep(ld, block)
    ELSE {ld}

\* runbook.rs:70-98: parse, from block k on; `?` ends it at the first error
ParseFrom(files, ld, blocks, k) ==
    IF k > Len(blocks) \/ ld.error /= "" \/ ld.overflow THEN {ld}
    ELSE UNION {ParseFrom(files, ld2, blocks, k + 1) :
                   ld2 \in BlockStep(files, ld, blocks[k])}

\* the loader is at a block of kind `kind` (runbook.rs:74-94)
AtBlock(kind) ==
    /\ loader.error = ""
    /\ ~loader.overflow
    /\ loader.pos <= Len(loader.input)
    /\ loader.input[loader.pos].kind = kind

\* the engine is not running while the runbook is loaded
EngineIdle ==
    UNCHANGED <<runs, uiRun, uiHost, dispatcher, worker, exitCh, toNode,
                fromNode, closed, reader, agent, streams, invoked, cli,
                wire>>

\* runbook.rs:80-82, 150-203: parse_group on the next block
ParseGroup ==
    /\ AtBlock("group")
    /\ LET block == loader.input[loader.pos]
           error == GroupError(loader.rb.groups, block)
       IN loader' =
            IF error /= ""
                THEN [loader EXCEPT
                        !.error = error,
                        !.span = GroupErrorSpan(loader.rb.groups, block,
                                                loader.pos)]
            ELSE [loader EXCEPT
                    !.pos = @ + 1,
                    !.rb.groups = Insert(@, block.name, GroupConfig(block))]
    /\ EngineIdle

\* runbook.rs:86-91, 100-148: parse_run on the next block.  `resolved` keeps
\* what hosts_from_name returned, `runs` the host lists of the parsed runs,
\* `plans` the action lists of their hosts
ParseRun ==
    /\ AtBlock("run")
    /\ \E res \in HostsFromName(loader.rb, loader.input[loader.pos].name) :
        \E run \in {RunResult(loader.rb, loader.input[loader.pos], res)} :
            loader' =
                IF run.overflow
                    THEN [loader EXCEPT !.overflow = TRUE,
                                        !.jobdepth = Max(@, run.deepest)]
                ELSE IF ~run.ok
                    THEN [loader EXCEPT !.error = run.msg,
                                        !.jobdepth = Max(@, run.deepest)]
                ELSE [loader EXCEPT
                        !.pos = @ + 1,
                        !.resolved = res.hosts,
                        !.runs = Append(@, run.hosts),
                        !.plans = Append(@, run.plans),
                        !.jobdepth = Max(@, run.deepest)]
    /\ EngineIdle

\* runbook.rs:77-79, 301-368: parse_use on the next block
ParseUse ==
    /\ AtBlock("use")
    /\ \E ld \in UseStep(loader.files, loader, loader.input[loader.pos]) :
        loader' = IF ld.error /= "" \/ ld.overflow THEN ld
                  ELSE [ld EXCEPT !.pos = @ + 1]
    /\ EngineIdle

\* runbook.rs:83-85, 562-586: parse_job on the next block
ParseJob ==
    /\ AtBlock("job")
    /\ LET ld == JobStep(loader, loader.input[loader.pos]) IN
        loader' = IF ld.error /= "" THEN ld ELSE [ld EXCEPT !.pos = @ + 1]
    /\ EngineIdle

\* the path of the runbook given on the command line
RootPath == "main.tr"

\* runbook.rs:40-68, core.rs:708: Runbook::new at level 0 on a file of these
\* blocks.  `reads` lists the files read and parsed, with their levels
NewLoader(blocks) ==
    [input |-> blocks, pos |-> 1,
     rb |-> NewRunbook(RootPath, 0),
     resolved |-> <<>>, runs |-> <<>>, plans |-> <<>>, error |-> "",
     span |-> <<>>, overflow |-> FALSE, jobdepth |-> 0,
     files |-> EmptyMap,
     reads |-> <<[file |-> RootPath, level |-> 0]>>]

\* the vars of an entry or of a group: none, a user, a user and become, or
\* values of the wrong type
VarMaps ==
    {EmptyMap,
     "remote_user" :> Str("alice"),
     "remote_user" :> Str("bob") @@ "become" :> Bool(TRUE),
     "remote_user" :> Bool(TRUE) @@ "become" :> Str("yes")}

HostNames == {"web1", "web2"}

\* the labels of the run block: a group, a host, or a name never declared
RunNames == {"db", "all", "web1", "main"}

\* inventories with vars on every layer: group db of two hosts, and group all
\* that refers to db and may declare web1 itself, before or after
LayeredInventories ==
    {<<GroupBlock("db", v2, <<HostEntry("web1", v1),
                              HostEntry("web2", EmptyMap)>>),
       GroupBlock("all", v4, entries)>> :
        v1 \in VarMaps, v2 \in VarMaps, v4 \in VarMaps,
        entries \in UNION {
            {<<GroupEntry("db", v3)>>,
             <<GroupEntry("db", v3), HostEntry("web1", v5)>>,
             <<HostEntry("web1", v5), GroupEntry("db", v3)>>} :
                v3 \in VarMaps, v5 \in VarMaps}}

\* the group blocks of every shape, without vars: db holds hosts, all holds
\* hosts and references to db and to itself
ShapeGroups(name, refs) ==
    {GroupBlock(name, EmptyMap, entries) :
        entries \in SeqsUpTo(
            {HostEntry(n, EmptyMap) : n \in HostNames} \cup
            {GroupEntry(g, EmptyMap) : g \in refs}, MaxEntries)}

\* inventories of every shape and order of declaration, the empty one
\* included
ShapeInventories ==
    LET dbs == ShapeGroups("db", {})
        alls == ShapeGroups("all", {"db", "all"})
    IN  {<<>>} \cup {<<d>> : d \in dbs} \cup {<<a>> : a \in alls}
        \cup {<<d, a>> : d \in dbs, a \in alls}
        \cup {<<a, d>> : d \in dbs, a \in alls}
        \cup {<<d, d2>> : d \in dbs, d2 \in dbs}

\* inventories of two groups that refer to each other, after a host entry
\* or without one
CyclicInventories ==
    {<<GroupBlock(a, EmptyMap, hosts \o <<GroupEntry(b, EmptyMap)>>),
       GroupBlock(b, EmptyMap, <<GroupEntry(a, EmptyMap)>>)>> :
        a \in {"db", "all"}, b \in {"db", "all"},
        hosts \in {<<>>, <<HostEntry("web1", EmptyMap)>>}}

\* core.rs:706-711: a runbook file is loaded: its groups, then one run
LoadInit ==
    /\ \E inventory \in LayeredInventories \cup ShapeInventories
                         \cup CyclicInventories,
          name \in RunNames :
            loader = NewLoader(inventory \o <<RunBlock(name)>>)
    /\ EngineInit(<<>>)
    /\ cli = NoCli
    /\ wire = NoWire

\* runbook.rs:70-98: parse, block by block
LoadNext ==
    \/ ParseGroup
    \/ ParseRun

LoadSpec == LoadInit /\ [][LoadNext]_vars

\* ------------------------------------------ runbooks with imports
\* an action of the catalog and the call of a job, as action blocks
PackageOf(name) ==
    ActionBlock("package", <<>>,
                "name" :> name @@ "state" :> Str("present"))
CopyOf(src) ==
    ActionBlock("copy", <<>>, "src" :> Str(src) @@ "dest" :> Str("/etc"))
CallJob(name) == ActionBlock("job", <<>>, "name" :> Str(name))

\* a group of one host
GroupOf(name, host) ==
    GroupBlock(name, EmptyMap, <<HostEntry(host, EmptyMap)>>)

\* base.tr: a group and a job; the same with a run of a name it does not
\* declare; a job that calls a job of base.tr; or an import of lib.tr
BaseFiles ==
    {<<GroupOf("db", "web1"), JobBlock("setup", <<PackageOf(Str("git"))>>)>>,
     <<JobBlock("helper", <<PackageOf(Str("git"))>>),
       JobBlock("setup", <<CallJob("helper")>>)>>,
     <<GroupOf("db", "web1"), JobBlock("setup", <<PackageOf(Str("git"))>>),
       RunActions("nohost", <<CopyOf("app.conf")>>)>>,
     <<UseBlock("lib.tr", <<>>)>>}

\* lib.tr: a group and a job of its own; re-exports of base.tr with a group
\* and a job that refer to them, and a run; a re-export of a job of base.tr
\* beside a job of its own; an import of itself; an import of main.tr
LibFiles ==
    {<<GroupOf("db", "web2"), JobBlock("setup", <<PackageOf(Str("vim"))>>)>>,
     <<UseBlock("base.tr", <<UseEntry("group", "db", ""),
                             UseEntry("job", "setup", "")>>),
       GroupBlock("all", EmptyMap, <<GroupEntry("db", EmptyMap)>>),
       JobBlock("deploy", <<CallJob("setup")>>),
       RunActions("db", <<CallJob("deploy")>>)>>,
     <<UseBlock("base.tr", <<UseEntry("job", "setup", "")>>),
       JobBlock("helper", <<PackageOf(Str("vim"))>>)>>,
     <<UseBlock("lib.tr", <<>>)>>,
     <<UseBlock(RootPath, <<>>)>>}

\* the nested blocks of a use block
UseEntries ==
    {<<>>,
     <<UseEntry("group", "db", "")>>,
     <<UseEntry("group", "db", "all")>>,
     <<UseEntry("group", "all", "")>>,
     <<UseEntry("job", "setup", "")>>,
     <<UseEntry("job", "setup", "deploy")>>,
     <<UseEntry("job", "deploy", "")>>,
     <<UseEntry("job", "nojob", "")>>}

\* the blocks of main.tr before its run: imports of lib.tr under two
\* spellings, of base.tr, of main.tr itself and of a file that does not
\* exist, and declarations of groups and jobs
MainBlocks ==
    {UseBlock(path, entries) :
        path \in {"lib.tr", "sub/../lib.tr", "base.tr"},
        entries \in UseEntries}
    \cup {UseBlock(RootPath, <<>>), UseBlock("none.tr", <<>>)}
    \cup {GroupOf("db", "web3"), GroupOf("all", "web3")}
    \cup {JobBlock("setup", <<CopyOf("app.conf")>>),
          JobBlock("deploy", <<CopyOf("app.conf")>>)}

\* the runs of main.tr
MainRuns ==
    {RunActions("db", <<CallJob("setup")>>),
     RunActions("all", <<CallJob("deploy")>>),
     RunActions("db", <<CopyOf("app.conf")>>)}

\* core.rs:706-711: main.tr is loaded from a directory that holds lib.tr and
\* base.tr
ImportInit ==
    /\ \E blocks \in SeqsUpTo(MainBlocks, 2), run \in MainRuns,
          lib \in LibFiles, base \in BaseFiles :
        LET files == RootPath :> (blocks \o <<run>>)
                     @@ "lib.tr" :> lib @@ "base.tr" :> base
        IN  loader = [NewLoader(files[RootPath]) EXCEPT !.files = files]
    /\ EngineInit(<<>>)
    /\ cli = NoCli
    /\ wire = NoWire

\* runbook.rs:70-98: parse, block by block
BookNext ==
    \/ ParseUse
    \/ ParseGroup
    \/ ParseJob
    \/ ParseRun

ImportSpec == ImportInit /\ [][BookNext]_vars

\* ------------------------------------------ runbooks with jobs and plans
\* the inventory of the plans: two hosts that give different values to the
\* variable pkg
PlanInventory ==
    GroupBlock("db", EmptyMap,
               <<HostEntry("web1", "pkg" :> Str("vim")),
                 HostEntry("web2", "pkg" :> Str("git"))>>)

\* the action blocks of runs and jobs
PlanActions ==
    {PackageOf(Var("pkg")),
     ActionBlock("package", <<Str("tools")>>,
                 "name" :> Arr(<<Str("curl"), Var("pkg")>>)
                 @@ "state" :> Str("latest")),
     CopyOf("app.conf"),
     CallJob("setup"),
     CallJob("deploy")}

\* the bodies of job setup: actions; actions around a call of deploy; a call
\* of itself
SetupBodies ==
    {<<PackageOf(Var("pkg"))>>,
     <<CopyOf("app.conf"), CallJob("deploy"), PackageOf(Str("curl"))>>,
     <<CallJob("deploy")>>,
     <<CopyOf("app.conf"), CallJob("setup")>>}

\* the bodies of job deploy
DeployBodies ==
    {<<CopyOf("app.conf")>>,
     <<PackageOf(Var("pkg")), PackageOf(Str("curl"))>>,
     <<CallJob("setup")>>,
     <<PackageOf(Var("nopkg"))>>}

\* runbooks of two jobs and a run of at most two actions, or of three with a
\* job called between two actions
JobPlans ==
    {<<PlanInventory, JobBlock("setup", setup), JobBlock("deploy", deploy),
       RunActions("db", actions)>> :
        setup \in SetupBodies, deploy \in DeployBodies,
        actions \in SeqsUpTo(PlanActions, 2)
            \cup {<<CopyOf("app.conf"), CallJob(job), PackageOf(Var("pkg"))>>
                     : job \in {"setup", "deploy"}}}

\* the values of the attributes of a params block
ParamValues ==
    {Str("app.conf"), Str("vim"), Str("present"), Str("file"), Str("nope"),
     Bool(TRUE), Var("pkg"),
     Arr(<<Str("vim")>>), Arr(<<Str("vim"), Str("git")>>),
     Arr(<<Str("vim"), Bool(TRUE)>>), Arr(<<>>)}

\* params blocks that set or leave out each of two attributes
ParamMaps(a, b) ==
    {EmptyMap} \cup {a :> v : v \in ParamValues}
    \cup {b :> v : v \in ParamValues}
    \cup {a :> v @@ b :> w : v \in ParamValues, w \in ParamValues}

\* runbooks of a run of one action of a kind with its params, or of two
\* package actions
ParamPlans ==
    {<<PlanInventory, JobBlock("setup", <<CopyOf("app.conf")>>),
       RunActions("db", actions)>> :
        actions \in
            {<<ActionBlock("copy", <<>>, params)>> :
                params \in ParamMaps("src", "dest")}
            \cup {<<ActionBlock("package", <<>>, params)>> :
                     params \in ParamMaps("name", "state")}
            \cup {<<ActionBlock("file", <<>>, params)>> :
                     params \in ParamMaps("path", "state")}
            \cup {<<PackageOf(v), PackageOf(w)>> :
                     v \in ParamValues, w \in ParamValues}}

\* core.rs:706-711: a runbook without imports is loaded
PlanInit ==
    /\ \E blocks \in JobPlans \cup ParamPlans : loader = NewLoader(blocks)
    /\ EngineInit(<<>>)
    /\ cli = NoCli
    /\ wire = NoWire

\* runbook.rs:70-98: parse, block by block
PlanNext ==
    \/ ParseGroup
    \/ ParseJob
    \/ ParseRun

PlanSpec == PlanInit /\ [][PlanNext]_vars

\* ---------------------------------------------------------- vocabulary
Range(s) == {s[k] : k \in 1..Len(s)}

\* the ActionMessages of host h that reached the UI sink, in order
Log(h) == [k \in 1..Len(uiHost[h]) |-> uiHost[h][k].msg]

\* what the agent of h sent and was not lost with the transport
Sent(h) == Log(h) \o fromNode[h]

Plan(h) == NodeOf(h).actions

\* the messages that carry an action id
OfAction(m, id) ==
    /\ m.type \in {"ActionStarted", "ActionStdout", "ActionOutputLine",
                   "ActionResult"}
    /\ m.id = id

\* the position of an action id in the plan of h (0: not of the plan)
PlanIndex(h, id) ==
    IF \E j \in 1..Len(Plan(h)) : Plan(h)[j].id = id
        THEN CHOOSE j \in 1..Len(Plan(h)) : Plan(h)[j].id = id
        ELSE 0

\* the steps of the threads of host h the program itself takes
HostStep(h) ==
    \/ NodeExecuteStartFailed(h)
    \/ NodeExecute(h)
    \/ ReaderForward(h)
    \/ ReaderStreamEnded(h)
    \/ MainloopDrop(h)
    \/ MainloopAction(h)
    \/ MainloopActionNotFound(h)
    \/ ActionFinish(h)
    \/ MainloopShutdown(h)
    \/ StreamLine(h)

\* no thread of the program can take a step
Quiescent == ~ENABLED Next

\* ------------------------------------------------ claims on one host (Spec)
\* C1: whenever an action fails on the agent, ActionResult{id, false} and
\* then NodeShutdown{false} reach the UI sink of the host, in that order.
\* Stated on the states where every thread has stopped: on a host whose
\* transport did not end, each ActionResult{false} of the log is followed by
\* NodeShutdown{false}.
C1_FailureThenShutdown ==
    Quiescent =>
        \A h \in HostIds :
            ~closed[h] =>
                \A k \in 1..Len(Log(h)) :
                    (Log(h)[k].type = "ActionResult" /\ ~Log(h)[k].success) =>
                        \E k2 \in k + 1..Len(Log(h)) :
                            Log(h)[k2] = NodeShutdown(FALSE)

\* the failed action of a host: its ActionResult{false} was sent
Failed(h, id) == ActionResult(id, FALSE) \in Range(Sent(h))

\* nothing was done for the action: no executor invoked, no streaming thread,
\* no message carrying its id
NoTrace(h, id) ==
    /\ id \notin Range(invoked[h])
    /\ \A st \in streams[h] : st.id /= id
    /\ \A m \in Range(Sent(h)) : ~OfAction(m, id)

\* C3: after an action has failed on the agent, every Action received later
\* is dropped: its executor is not invoked and no ActionStarted, output line
\* or ActionResult is emitted for it.
C3_DroppedAfterFailure ==
    \A h \in HostIds :
        \A i, j \in 1..Len(Plan(h)) :
            (i < j /\ Failed(h, Plan(h)[i].id)) => NoTrace(h, Plan(h)[j].id)

\* the agent of h has received the first n messages sent to it
Received(h, n) ==
    /\ worker[h] = "returned"
    /\ agent[h].pc \in {"idle", "executing"}
    /\ Len(toNode[h]) <= Len(Plan(h)) + 1 - n

\* C3's case: the first action failed and the agent has received the second
C3_Witness ==
    \E h \in HostIds :
        /\ Len(Plan(h)) >= 2
        /\ Failed(h, Plan(h)[1].id)
        /\ Received(h, 2)

\* the ids of the ActionStarted events of the log of h, in order
StartedIds(h) ==
    LET started == SelectSeq(Log(h), LAMBDA m : m.type = "ActionStarted")
    IN  [k \in 1..Len(started) |-> started[k].id]

\* C4: on one host the ActionStarted events reach the UI sink in the order of
\* their ActionData in the plan: the started ids are ids of the plan, at
\* strictly increasing positions.
C4_StartedInPlanOrder ==
    \A h \in HostIds :
        LET ids == StartedIds(h) IN
            /\ \A k \in 1..Len(ids) : PlanIndex(h, ids[k]) > 0
            /\ \A a, b \in 1..Len(ids) :
                  a < b => PlanIndex(h, ids[a]) < PlanIndex(h, ids[b])

\* C4's case: two actions of a plan were started
C4_Witness == \E h \in HostIds : Len(StartedIds(h)) >= 2

\* C5: on one host all events of action i are observed before any event of
\* action i+1; no output line of action i comes after its ActionResult or
\* after the ActionStarted of a later action.
C5_EventsOfActionContiguous ==
    \A h \in HostIds :
        \A a, b \in 1..Len(Log(h)) :
            (a < b /\ Log(h)[b].type = "ActionOutputLine") =>
                /\ Log(h)[a] /= ActionResult(Log(h)[b].id, TRUE)
                /\ Log(h)[a] /= ActionResult(Log(h)[b].id, FALSE)
                /\ ~(/\ Log(h)[a].type = "ActionStarted"
                     /\ PlanIndex(h, Log(h)[a].id) >
                            PlanIndex(h, Log(h)[b].id))

\* ------------------------------------------------ claims on runs (RunSpec)
\* C2: every run for which RunStarted was emitted eventually has
\* RunCompleted emitted, whatever the outcomes of its hosts.  Stated on the
\* states where every thread has stopped or blocks for ever: there each
\* RunStarted of the sink is followed by the RunCompleted of the same run.
C2_StartedRunCompletes ==
    Quiescent =>
        \A k \in 1..Len(uiRun) :
            uiRun[k].type = "RunStarted" =>
                \E k2 \in k + 1..Len(uiRun) :
                    /\ uiRun[k2].type = "RunCompleted"
                    /\ uiRun[k2].id = uiRun[k].id

\* host h reported NodeShutdown{success = true}
HostSucceeded(h) == NodeShutdown(TRUE) \in Range(Log(h))

\* C6: the success flag of RunCompleted is true if and only if every host of
\* the run reported NodeShutdown{true}; a host that failed to start or whose
\* stream ended without NodeShutdown makes it false.
C6_SuccessIsConjunction ==
    \A k \in 1..Len(uiRun) :
        uiRun[k].type = "RunCompleted" =>
            (uiRun[k].success <=>
                \A h \in RunHosts(uiRun[k].id) : HostSucceeded(h))

\* C6's case: a run completed with success, and a later run completed
\* without, one of its hosts having reported NodeShutdown{true} and another
\* not
C6_Witness ==
    /\ RunCompleted(1, TRUE) \in Range(uiRun)
    /\ RunCompleted(2, FALSE) \in Range(uiRun)
    /\ \E g, h \in RunHosts(2) : HostSucceeded(g) /\ ~HostSucceeded(h)

\* C7: once RunCompleted{success = false} is emitted for a run, no RunStarted
\* is emitted, no host worker is spawned and no agent is started for any
\* later run.
C7_FailedRunAborts ==
    \A k \in 1..Len(uiRun) :
        (uiRun[k].type = "RunCompleted" /\ ~uiRun[k].success) =>
            /\ k = Len(uiRun)
            /\ \A h \in HostIds :
                  h[1] > uiRun[k].id =>
                      /\ worker[h] = "unspawned"
                      /\ reader[h] = "none"
                      /\ agent[h].pc = "none"

\* C7's case: the first of several runs failed and the dispatcher is done
C7_Witness ==
    /\ Len(runs) >= 2
    /\ RunCompleted(1, FALSE) \in Range(uiRun)
    /\ dispatcher.pc = "done"

\* run r has completed, with either outcome
Completed(r) ==
    \E k \in 1..Len(uiRun) :
        uiRun[k].type = "RunCompleted" /\ uiRun[k].id = r

\* C8: runs execute one after the other in declaration order: the run events
\* of the sink are RunStarted(1), RunCompleted(1), RunStarted(2), ..., so at
\* most one run is started and not completed, and a host worker of a run
\* exists only when every earlier run has completed.
C8_RunsSequential ==
    /\ \A k \in 1..Len(uiRun) :
          /\ uiRun[k].id = (k + 1) \div 2
          /\ uiRun[k].type =
                IF k % 2 = 1 THEN "RunStarted" ELSE "RunCompleted"
    /\ \A h \in HostIds :
          worker[h] /= "unspawned" =>
              /\ RunStarted(h[1]) \in Range(uiRun)
              /\ \A r \in 1..h[1] - 1 : Completed(r)

\* C8's case: the second run has started and has a host worker
C8_Witness ==
    /\ RunStarted(2) \in Range(uiRun)
    /\ \E h \in RunHosts(2) : worker[h] /= "unspawned"

\* C10: by the time RunCompleted is emitted for a run, the (run id, host id)
\* pairs of the action events on the sink are exactly those of the hosts of
\* the run: each host contributed an event and no event carries another pair.
C10_TagsAreTheRunsHosts ==
    \A r \in DOMAIN runs :
        Completed(r) =>
            {<<e.run, e.host>> :
                e \in {e \in UNION {Range(uiHost[h]) : h \in HostIds} :
                          e.run = r}}
            = {<<r, NodeOf(h).id>> : h \in RunHosts(r)}

\* ----------------------------------- claims on the hosts of a run (HostsSpec)
\* host g has failed: its agent could not be started, or one of its actions
\* failed
HostFailed(g) ==
    \/ NodeStartFailed \in Range(Log(g))
    \/ \E j \in 1..Len(Plan(g)) : Failed(g, Plan(g)[j].id)

\* the agent of h was started, its transport is up and none of its actions
\* failed
Healthy(h) ==
    /\ reader[h] /= "none"
    /\ ~closed[h]
    /\ ~agent[h].had_error

\* what a host whose actions all succeed shows on the sink
SuccessLog(h) ==
    [k \in 1..3 * Len(Plan(h)) + 1 |->
        LET id == Plan(h)[(k + 2) \div 3].id IN
            IF k = 3 * Len(Plan(h)) + 1 THEN NodeShutdown(TRUE)
            ELSE IF k % 3 = 1 THEN ActionStarted(id)
            ELSE IF k % 3 = 2 THEN ActionStdout(id, "successfully")
            ELSE ActionResult(id, TRUE)]

\* C9: when one host of a run fails (its agent cannot be started, which
\* yields NodeStartFailed for that host only, or one of its actions fails),
\* every other host whose own actions all succeed has, once it has nothing
\* more to do, emitted ActionStarted and ActionResult{true} for each of its
\* actions in plan order and NodeShutdown{true} last.
C9_FailureIsolatedPerHost ==
    \A g, h \in HostIds :
        (g /= h /\ g[1] = h[1] /\ HostFailed(g) /\ Healthy(h)) =>
            /\ NodeStartFailed \notin Range(Log(h))
            /\ ~ENABLED HostStep(h) => Log(h) = SuccessLog(h)

\* C9's case: an action of one host failed and another host has completed
\* its plan of several actions with success
C9_Witness ==
    \E g, h \in HostIds :
        /\ g /= h /\ g[1] = h[1]
        /\ \E j \in 1..Len(Plan(g)) : Failed(g, Plan(g)[j].id)
        /\ Healthy(h)
        /\ Len(Plan(h)) >= 2
        /\ Log(h) = SuccessLog(h)

\* ------------------------------------------- more claims on runs (RunSpec)
\* C11: run-level events bracket the action events of their run: an action
\* event tagged with run r is on the sink only when RunStarted{r} is, and once
\* RunCompleted{r} is on the sink no action event of run r is added, whatever
\* the interleaving of the worker and reader threads.
C11_RunEventsBracket ==
    /\ [](\A h \in HostIds :
            uiHost[h] /= <<>> => RunStarted(h[1]) \in Range(uiRun))
    /\ [][\A h \in HostIds : Completed(h[1]) => uiHost'[h] = uiHost[h]]_vars

\* C11's case: a run of several hosts has completed and each of its hosts has
\* events on the sink
C11_Witness ==
    /\ Completed(1)
    /\ Cardinality(RunHosts(1)) >= 2
    /\ \A h \in RunHosts(1) : uiHost[h] /= <<>>

\* ---------------------------------------- claims on the agent (AgentSpec)
\* C12: when the agent receives Shutdown and no action has failed, it emits
\* NodeShutdown{true} exactly once and terminates: NodeShutdown is the last
\* message it sends and no executor is invoked for a message that arrives
\* after Shutdown.
C12_ShutdownTerminates ==
    \A h \in HostIds :
        \A k \in 1..Len(fromNode[h]) :
            fromNode[h][k].type = "NodeShutdown" =>
                /\ fromNode[h][k] = NodeShutdown(TRUE)
                /\ k = Len(fromNode[h])

\* ------------------------------------------ more claims on one host (Spec)
\* how many elements of seq satisfy Test
Count(seq, Test(_)) == Cardinality({k \in 1..Len(seq) : Test(seq[k])})

\* C13: actions are executed at most once and never retried: each ActionData
\* of the plan of a host is sent to its agent at most once, its executor is
\* invoked at most once, and at most one ActionStarted and at most one
\* ActionResult are emitted for its id.
C13_AtMostOnce ==
    \A h \in HostIds :
        \A j \in 1..Len(Plan(h)) :
            LET id == Plan(h)[j].id IN
                /\ Count(toNode[h], LAMBDA m : m = MsgAction(Plan(h)[j])) <= 1
                /\ (\E m \in Range(Sent(h)) : OfAction(m, id)) =>
                        MsgAction(Plan(h)[j]) \notin Range(toNode[h])
                /\ Count(invoked[h], LAMBDA x : x = id) <= 1
                /\ Count(Sent(h), LAMBDA m : m = ActionStarted(id)) <= 1
                /\ Count(Sent(h), LAMBDA m :
                        m.type = "ActionResult" /\ m.id = id) <= 1

\* C13's case: every action of a plan of several actions was started and has
\* its result on the sink
C13_Witness ==
    \E h \in HostIds :
        /\ Len(Plan(h)) >= 2
        /\ \A j \in 1..Len(Plan(h)) :
              /\ ActionStarted(Plan(h)[j].id) \in Range(Log(h))
              /\ \E m \in Range(Log(h)) :
                    m.type = "ActionResult" /\ m.id = Plan(h)[j].id

\* C14: the agent selects the executor of an ActionData by its kind (the
\* `action` field), not by its display name: every action the agent answers
\* and whose kind is in the catalog had the executor of its kind invoked.
C14_DispatchByKind ==
    \A h \in HostIds :
        \A j \in 1..Len(Plan(h)) :
            (/\ Plan(h)[j].action \in AllActions
             /\ \E m \in Range(Sent(h)) :
                   m.type = "ActionResult" /\ m.id = Plan(h)[j].id)
                => Plan(h)[j].id \in Range(invoked[h])

\* ------------------------------------- claims on the inventory (LoadSpec)
\* the run block of the runbook was parsed
RunParsed == loader.runs /= <<>>

\* the label of the run block
RunName == loader.input[Len(loader.input)].name

\* the run was resolved from a declared group
GroupRunParsed == RunParsed /\ RunName \in DOMAIN loader.rb.groups

RECURSIVE LayersFrom(_, _, _)
\* the var layers above each node that group g resolves to, innermost
\* first: the host entry, its group, then for each enclosing group the entry
\* that refers to the inner group and the enclosing group itself
Layers(rb, g) == LayersFrom(rb, rb.groups[g], 1)
LayersFrom(rb, group, k) ==
    IF k > Len(group.hosts) THEN <<>>
    ELSE
        LET e == group.hosts[k]
            inner == Layers(rb, e.name)
        IN  (IF e.kind = "host" THEN <<<<e.vars, group.vars>>>>
             ELSE [i \in 1..Len(inner) |->
                      inner[i] \o <<e.vars, group.vars>>])
            \o LayersFrom(rb, group, k + 1)

\* the innermost layer of the chain that defines the key
Innermost(chain, key) ==
    chain[CHOOSE l \in 1..Len(chain) :
             /\ key \in DOMAIN chain[l]
             /\ \A l2 \in 1..l - 1 : key \notin DOMAIN chain[l2]]

\* C15: the merged vars of every node resolved from a declared group hold
\* every key defined in its host entry or in an enclosing layer, and a key
\* defined in several layers has the value of the innermost of them.
C15_InnermostLayerWins ==
    GroupRunParsed =>
        LET chains == Layers(loader.rb, RunName) IN
            /\ Len(loader.resolved) = Len(chains)
            /\ \A i \in 1..Len(chains) :
                  /\ DOMAIN loader.resolved[i].vars =
                        UNION {DOMAIN chains[i][l] : l \in 1..Len(chains[i])}
                  /\ \A key \in DOMAIN loader.resolved[i].vars :
                        loader.resolved[i].vars[key] =
                            Innermost(chains[i], key)[key]

\* C15's case: a node under four layers, two of which give different values
\* to one key
C15_Witness ==
    /\ GroupRunParsed
    /\ \E chain \in Range(Layers(loader.rb, RunName)) :
          /\ Len(chain) >= 4
          /\ \E l1, l2 \in 1..Len(chain) :
                /\ l1 < l2
                /\ \E key \in DOMAIN chain[l1] \cap DOMAIN chain[l2] :
                      chain[l1][key] /= chain[l2][key]

\* C16: on every resolved node remote_user is the string value of the
\* winning `remote_user` var and become is the bool value of the winning
\* `become` var, whichever layer supplies it.
C16_PromotedFields ==
    RunParsed =>
        \A i \in 1..Len(loader.resolved) :
            LET node == loader.resolved[i] IN
                /\ node.remote_user =
                      IF /\ "remote_user" \in DOMAIN node.vars
                         /\ node.vars["remote_user"].t = "string"
                          THEN <<node.vars["remote_user"].v>> ELSE <<>>
                /\ node.become_ =
                      (/\ "become" \in DOMAIN node.vars
                       /\ node.vars["become"] = Bool(TRUE))

C18_EmptyInventoryRunLoads ==
    loader.input = <<RunBlock("main")>> =>
        /\ loader.error = ""
        /\ loader.pos > 1 =>
              /\ Len(loader.runs) = 1
              /\ Len(loader.runs[1]) = 1
              /\ loader.runs[1][1].host = "localhost"

\* the positions of the first node of each host string
FirstOccurrences(nodes) ==
    {i \in 1..Len(nodes) :
        \A j \in 1..i - 1 : nodes[j].host /= nodes[i].host}

\* C19: the host list of a run has no two nodes with the same host string:
\* of the nodes resolution yields for one host string the first is kept,
\* with its vars, and the kept nodes stay in resolution order.
C19_DedupKeepsFirst ==
    (RunParsed /\ loader.resolved /= <<>>) =>
        LET hosts == loader.runs[1]
            keep == FirstOccurrences(loader.resolved)
        IN  /\ \A a, b \in 1..Len(hosts) :
                  a /= b => hosts[a].host /= hosts[b].host
            /\ Len(hosts) = Cardinality(keep)
            /\ \A i \in keep :
                  hosts[Cardinality({j \in keep : j <= i})] =
                      loader.resolved[i]

\* C19's case: resolution yields one host string twice, with different vars
C19_Witness ==
    /\ RunParsed
    /\ \E a, b \in 1..Len(loader.resolved) :
          /\ a < b
          /\ loader.resolved[a].host = loader.resolved[b].host
          /\ loader.resolved[a].vars /= loader.resolved[b].vars

RECURSIVE DepthFirstFrom(_, _, _)
\* the host strings of group g in depth-first declaration order
DepthFirst(rb, g) == DepthFirstFrom(rb, rb.groups[g], 1)
DepthFirstFrom(rb, group, k) ==
    IF k > Len(group.hosts) THEN <<>>
    ELSE (IF group.hosts[k].kind = "host" THEN <<group.hosts[k].name>>
          ELSE DepthFirst(rb, group.hosts[k].name))
         \o DepthFirstFrom(rb, group, k + 1)

\* C20: a group resolves to its nodes in depth-first declaration order: the
\* concatenation, over its entries in declaration order, of the node of a
\* host entry or the resolved list of a group entry.
C20_DepthFirstOrder ==
    GroupRunParsed =>
        [i \in 1..Len(loader.resolved) |-> loader.resolved[i].host]
            = DepthFirst(loader.rb, RunName)

\* C20's case: a group with a host entry and a reference to a group of
\* several hosts
C20_Witness ==
    /\ GroupRunParsed
    /\ Len(loader.resolved) >= 3
    /\ \E a, b \in 1..Len(loader.rb.groups[RunName].hosts) :
          /\ loader.rb.groups[RunName].hosts[a].kind = "host"
          /\ loader.rb.groups[RunName].hosts[b].kind = "group"

\* the names of the groups declared by the blocks before block p
DeclaredBefore(p) ==
    {loader.input[q].name :
        q \in {q2 \in 1..p - 1 : loader.input[q2].kind = "group"}}

\* the groups that the entries of group g name
GroupRefs(rb, g) ==
    {rb.groups[g].hosts[k].name :
        k \in {k2 \in 1..Len(rb.groups[g].hosts) :
                  rb.groups[g].hosts[k2].kind = "group"}}

RECURSIVE ReachIn(_, _, _)
\* the groups reached from the set `from` in at most n references
ReachIn(rb, from, n) ==
    IF n = 0 THEN from
    ELSE ReachIn(rb,
                 from \cup UNION {GroupRefs(rb, g) :
                                     g \in from \cap DOMAIN rb.groups},
                 n - 1)

\* the groups reached from g by one reference or more
Reach(rb, g) ==
    ReachIn(rb, GroupRefs(rb, g), Cardinality(DOMAIN rb.groups))

\* entry k of the block names the block itself or a group not declared
BadReference(groups, block, k) ==
    /\ block.entries[k].kind = "group"
    /\ \/ block.entries[k].name = block.name
       \/ block.entries[k].name \notin DOMAIN groups

\* C21: a group block with a nested group entry that names the block itself
\* or a group not yet declared is refused with an error at that entry, so the
\* loader never passes such a block and no group of a loaded runbook reaches
\* itself through group references.
C21_GroupCyclesRefused ==
    /\ \A p \in 1..loader.pos - 1 :
          loader.input[p].kind = "group" =>
              \A k \in 1..Len(loader.input[p].entries) :
                  loader.input[p].entries[k].kind = "group" =>
                      /\ loader.input[p].entries[k].name
                            /= loader.input[p].name
                      /\ loader.input[p].entries[k].name
                            \in DeclaredBefore(p)
    /\ \A g \in DOMAIN loader.rb.groups : g \notin Reach(loader.rb, g)
    /\ loader.error \in {"group can't point to itself",
                         "group doesn't exist"} =>
          LET block == loader.input[loader.pos] IN
              /\ loader.span[1] = loader.pos
              /\ loader.span[2] \in 1..Len(block.entries)
              /\ BadReference(loader.rb.groups, block, loader.span[2])
              /\ \A k \in 1..loader.span[2] - 1 :
                    ~BadReference(loader.rb.groups, block, k)
              /\ loader.error = "group can't point to itself"
                    <=> block.entries[loader.span[2]].name = block.name

\* C21's case: the load is refused at a reference to a group that is declared
\* later and refers back to the refused block
C21_Witness ==
    /\ loader.error = "group doesn't exist"
    /\ loader.span[2] > 1
    /\ \E q \in loader.pos + 1..Len(loader.input) :
          /\ loader.input[q].kind = "group"
          /\ loader.input[q].name =
                loader.input[loader.pos].entries[loader.span[2]].name
          /\ \E k \in 1..Len(loader.input[q].entries) :
                /\ loader.input[q].entries[k].kind = "group"
                /\ loader.input[q].entries[k].name
                      = loader.input[loader.pos].name

\* the nesting of jobs that the plan of a run may reach: the cap of the
\* specification, scaled to the bound of the model
JobDepthCap == MaxDepth - 1

\* C22: building the plan of a run whose job nesting goes beyond the cap
\* ends the load with the config error `job name might have a endless loop
\* here`; it does not recurse on.
C22_JobRecursionCapped ==
    loader.jobdepth > JobDepthCap
        => /\ loader.error = "job name might have a endless loop here"
           /\ ~loader.overflow

\* the level of import that a load may reach: the cap of the specification,
\* scaled to the bound of the model
LevelCap == MaxLevel - 1

\* C23: a load whose chain of imports goes beyond the level cap is refused
\* with an error; it does not go on importing.
C23_ImportLevelCapped ==
    (\E i \in 1..Len(loader.reads) : loader.reads[i].level > LevelCap)
        => /\ loader.error /= ""
           /\ ~loader.overflow

\* C24: in a load that succeeds, no file is read and parsed twice, through
\* whichever `use` paths and from whichever runbooks it is reached.
C24_FileParsedOnce ==
    (loader.error = "" /\ ~loader.overflow)
        => \A i, j \in 1..Len(loader.reads) :
              loader.reads[i].file = loader.reads[j].file => i = j

RECURSIVE Imported(_)
\* the runbooks stored in the imports of rb, at every depth
Imported(rb) ==
    UNION {{rb.imports[p]} \cup Imported(rb.imports[p]) :
              p \in DOMAIN rb.imports}

\* the root runbook is at a run block
RootAtRun ==
    /\ loader.pos <= Len(loader.input)
    /\ loader.input[loader.pos].kind = "run"

\* an imported file holds a run block
ImportHoldsRun(rb) ==
    \E k \in 1..Len(loader.files[Canonicalize(rb.path)]) :
        loader.files[Canonicalize(rb.path)][k].kind = "run"

\* C25: every runbook stored in an imports map, at any depth, has an empty
\* runs list, and the run blocks of imported files are neither resolved nor
\* compiled: hosts are looked up and jobs expanded only for a run block of
\* the root runbook.
C25_ImportsHaveNoRuns ==
    /\ \A rb \in Imported(loader.rb) : rb.runs = <<>>
    /\ loader.jobdepth > 0 => (RootAtRun \/ loader.runs /= <<>>)
    /\ loader.error = "can't find host with name" => RootAtRun

\* a load that imported a file that holds a run block of a name no group
\* declares, and one that holds a run block that calls a job
C25_Witness ==
    /\ loader.error = ""
    /\ ~loader.overflow
    /\ \E rb \in Imported(loader.rb) :
        /\ ImportHoldsRun(rb)
        /\ loader.files[Canonicalize(rb.path)][3].name = "nohost"
    /\ \E rb \in Imported(loader.rb) :
        /\ ImportHoldsRun(rb)
        /\ rb.jobs # EmptyMap
        /\ "deploy" \in DOMAIN rb.jobs

\* the names of the given kind that a block of a runbook introduces
Introduced(block, kind) ==
    IF block.kind = kind THEN {block.name}
    ELSE IF block.kind = "use"
        THEN {ImportedName(block.exports[e]) :
                 e \in {e \in 1..Len(block.exports) :
                           block.exports[e].kind = kind}}
    ELSE {}

\* how many names of the given kind the blocks of a file introduce
IntroducedCount(blocks, kind) ==
    Cardinality({<<k, name>> \in
                    (1..Len(blocks)) \X {"db", "all", "setup", "deploy",
                                         "helper", "nojob"} :
                        name \in Introduced(blocks[k], kind)})

\* the next block of the root runbook introduces a name that is present
Clash ==
    /\ loader.error = ""
    /\ ~loader.overflow
    /\ loader.pos <= Len(loader.input)
    /\ \/ Introduced(loader.input[loader.pos], "job")
              \cap DOMAIN loader.rb.jobs /= {}
       \/ Introduced(loader.input[loader.pos], "group")
              \cap DOMAIN loader.rb.groups /= {}

\* C26: job names and group names are unique within a loaded runbook: a
\* block that declares a job or group, or re-exports one under its own name
\* or an alias, with a name already present fails the load; a definition
\* that is present is never changed or removed; and a stored import holds
\* as many jobs and groups as its file introduces.
C26_NamesUnique ==
    /\ [][/\ Clash => (loader'.error /= "" \/ loader'.overflow)
          /\ \A name \in DOMAIN loader.rb.jobs :
                /\ name \in DOMAIN loader'.rb.jobs
                /\ loader'.rb.jobs[name] = loader.rb.jobs[name]
          /\ \A name \in DOMAIN loader.rb.groups :
                /\ name \in DOMAIN loader'.rb.groups
                /\ loader'.rb.groups[name] = loader.rb.groups[name]]_vars
    /\ [](\A rb \in Imported(loader.rb) :
            /\ Cardinality(DOMAIN rb.jobs) =
                 IntroducedCount(loader.files[Canonicalize(rb.path)], "job")
            /\ Cardinality(DOMAIN rb.groups) =
                 IntroducedCount(loader.files[Canonicalize(rb.path)],
                                 "group"))

\* a `use` entry with an alias that is the name of a job declared before is
\* refused, and the job is as it was
C26_Witness ==
    /\ loader.error = "job name already exists"
    /\ loader.pos <= Len(loader.input)
    /\ loader.input[loader.pos].kind = "use"
    /\ \E e \in 1..Len(loader.input[loader.pos].exports) :
        /\ loader.input[loader.pos].exports[e].as /= ""
        /\ loader.input[loader.pos].exports[e].as \in DOMAIN loader.rb.jobs
        /\ loader.rb.jobs[loader.input[loader.pos].exports[e].as].imported
              = NoPath

\* the run block of the runbook and the variables of its first host
RunOfInput == loader.input[Len(loader.input)]
FirstHostVars == PlanInventory.entries[1].vars

\* the run block has been parsed, with or without an error
RunAttempted ==
    \/ /\ loader.pos > Len(loader.input)
       /\ loader.error = ""
    \/ /\ loader.pos = Len(loader.input)
       /\ loader.error /= ""

\* the runbook is a run of one action of a kind that declares parameters,
\* with attributes that can be evaluated
OneActionRun ==
    /\ RunOfInput.kind = "run"
    /\ Len(RunOfInput.actions) = 1
    /\ RunOfInput.actions[1].action \in {"copy", "package", "file"}
    /\ ActionAttrs(FirstHostVars, RunOfInput.actions[1]) /= <<>>

\* a declared type accepts a value
Accepts(type_, value) ==
    \/ type_ = TString /\ value.t = "string"
    \/ type_ = TBool /\ value.t = "bool"
    \/ /\ type_ = TList
       /\ value.t = "array"
       /\ \A i \in 1..Len(value.items) : value.items[i].t = "string"
    \/ /\ type_.type = "Enum"
       /\ value.t = "string"
       /\ value.v \in {type_.options[i] : i \in 1..Len(type_.options)}

\* the value of an attribute under a declared type that accepts it
Under(type_, value) ==
    IF type_ = TString THEN PString(value.v)
    ELSE IF type_ = TBool THEN PBool(value.v)
    ELSE IF type_ = TList
        THEN PList([i \in 1..Len(value.items) |-> value.items[i].v])
    ELSE PBase(value.v)

\* the declared parameter is refused for these attributes
Refused(param, attrs) ==
    IF param.name \in DOMAIN attrs
        THEN \A i \in 1..Len(param.type_) :
                ~Accepts(param.type_[i], attrs[param.name])
        ELSE param.required

\* the messages of the claim, written out for the parameters of the catalog
TypeMessage(name) ==
    IF name = "name" THEN "name type should be String or List of String"
    ELSE IF name = "state"
        THEN "state type should be Enum of \"present\", \"absent\", \"latest\""
    ELSE name \o " type should be String"

RefusedMessage(kind, param, attrs) ==
    IF param.name \notin DOMAIN attrs THEN "can't find " \o param.name
    ELSE IF kind = "file" /\ param.name = "state"
        THEN "state type should be String"
    ELSE TypeMessage(param.name)

\* the slot of a parameter that is not refused
ExpectedSlot(param, attrs) ==
    IF param.name \notin DOMAIN attrs THEN <<>>
    ELSE LET first == CHOOSE i \in 1..Len(param.type_) :
                        /\ Accepts(param.type_[i], attrs[param.name])
                        /\ \A j \in 1..(i - 1) :
                              ~Accepts(param.type_[j], attrs[param.name])
         IN  <<Under(param.type_[first], attrs[param.name])>>

\* schema validation of the attributes against the parameters of the kind
\* gives what the claim says
ValidatedAsClaimed(kind, attrs) ==
    LET params == ActionDoc(kind)
        refused == {i \in 1..Len(params) : Refused(params[i], attrs)}
        result == DocParseAttrs(params, attrs)
    IN  IF refused = {}
            THEN /\ result.ok
                 /\ Len(result.values) = Len(params)
                 /\ \A i \in 1..Len(params) :
                       result.values[i] = ExpectedSlot(params[i], attrs)
            ELSE /\ ~result.ok
                 /\ \E i \in refused :
                       /\ \A j \in refused : i <= j
                       /\ result.msg = RefusedMessage(kind, params[i], attrs)

\* the messages of schema validation
SchemaMessages ==
    {"can't find " \o n : n \in {"src", "dest", "name", "state", "path"}}
    \cup {TypeMessage(n) : n \in {"src", "dest", "name", "state", "path"}}

FileStates == {"file", "absent", "directory"}

\* the runbook is a run of one file action with a path and a state that are
\* strings
FileRun ==
    /\ RunOfInput.kind = "run"
    /\ Len(RunOfInput.actions) = 1
    /\ RunOfInput.actions[1].action = "file"
    /\ DOMAIN RunOfInput.actions[1].params = {"path", "state"}
    /\ RunOfInput.actions[1].params["path"].t = "string"
    /\ RunOfInput.actions[1].params["state"].t = "string"

\* C28: compiling `action "file"` with a state outside file, absent and
\* directory fails with `state type should be Enum of "file", "absent",
\* "directory"`, and with each of the three values it is accepted.
C28_FileStateEnum ==
    (FileRun /\ RunAttempted) =>
        IF RunOfInput.actions[1].params["state"].v \in FileStates
            THEN /\ loader.error = ""
                 /\ \A h \in 1..Len(loader.plans[1]) :
                       /\ Len(loader.plans[1][h]) = 1
                       /\ loader.plans[1][h][1].action = "file"
            ELSE loader.error =
                    "state type should be Enum of \"file\", \"absent\", \"directory\""

\* the runbook is a run of two package actions
TwoPackages ==
    /\ RunOfInput.kind = "run"
    /\ Len(RunOfInput.actions) = 2
    /\ \A k \in 1..2 :
        /\ RunOfInput.actions[k].action = "package"
        /\ DOMAIN RunOfInput.actions[k].params = {"name", "state"}
        /\ RunOfInput.actions[k].params["state"] = Str("present")

\* the value of the name of package action k for the host of these vars
NameOf(k, host_vars) ==
    FromExpression(host_vars, RunOfInput.actions[k].params["name"])

\* for this host one of the two names is a string and the other the list
\* that holds this string only
StringAndList(host_vars) ==
    \E k \in 1..2 :
        /\ NameOf(k, host_vars).ok
        /\ NameOf(k, host_vars).value.t = "string"
        /\ NameOf(3 - k, host_vars) = ValOk(Arr(<<NameOf(k, host_vars).value>>))

\* C29: a package name given as the string "x" and one given as the list
\* ["x"] are both accepted and compile to the same payload, whose names are
\* the list that holds x.
C29_StringIsList ==
    (TwoPackages /\ RunAttempted
        /\ \A h \in 1..Len(PlanInventory.entries) :
              StringAndList(PlanInventory.entries[h].vars))
    => /\ loader.error = ""
       /\ \A h \in 1..Len(PlanInventory.entries) :
            /\ Len(loader.plans[1][h]) = 2
            /\ loader.plans[1][h][1].input = loader.plans[1][h][2].input
            /\ \E k \in 1..2 :
                  loader.plans[1][h][1].input.name =
                      <<NameOf(k, PlanInventory.entries[h].vars).value.v>>

\* the run of package "vim" and package ["vim"] is loaded
C29_Witness ==
    /\ TwoPackages
    /\ RunAttempted
    /\ RunOfInput.actions[1].params["name"] = Str("vim")
    /\ RunOfInput.actions[2].params["name"] = Arr(<<Str("vim")>>)
    /\ loader.error = ""
    /\ loader.plans[1][1][1].input = [name |-> <<"vim">>, state |-> "present"]

RECURSIVE Flatten(_, _, _)
\* the action blocks in the order of the text, each call of a job replaced
\* by the flattened body of the job, through at most `fuel` nested calls
Flatten(jobs, blocks, fuel) ==
    IF blocks = <<>> THEN <<>>
    ELSE (IF Head(blocks).action /= "job" THEN <<Head(blocks)>>
          ELSE IF fuel = 0 THEN <<>>
          ELSE Flatten(jobs,
                       jobs[Head(blocks).params["name"].v].block.actions,
                       fuel - 1))
         \o Flatten(jobs, Tail(blocks), fuel)

\* the action that a block of the catalog compiles to with these variables
Compiled(host_vars, block) ==
    CompileAction(block, ActionLabel(host_vars, block).value.v,
                  ActionAttrs(host_vars, block)[1], 0).actions[1]

\* the run of the runbook is loaded
RunLoaded ==
    /\ RunOfInput.kind = "run"
    /\ loader.pos > Len(loader.input)
    /\ loader.error = ""
    /\ ~loader.overflow

\* C30: the plan built for a host is the in-order flattening of the actions
\* of the run block: each call of a job is replaced in place by the expanded
\* actions of the job, and every action, of the run or of a job, is
\* evaluated with the variables of that host.
C30_PlanIsFlattening ==
    RunLoaded =>
        LET flat == Flatten(loader.rb.jobs, RunOfInput.actions, MaxDepth)
        IN  \A h \in 1..Len(loader.runs[1]) :
                /\ Len(loader.plans[1][h]) = Len(flat)
                /\ \A k \in 1..Len(flat) :
                      loader.plans[1][h][k] =
                          Compiled(loader.runs[1][h].vars, flat[k])

\* a run of a copy, a call of setup and a package; setup is a copy, a call
\* of deploy and a package; deploy installs the package of the host
C30_Witness ==
    /\ RunLoaded
    /\ Len(RunOfInput.actions) = 3
    /\ RunOfInput.actions[2] = CallJob("setup")
    /\ Len(loader.rb.jobs["setup"].block.actions) = 3
    /\ loader.rb.jobs["setup"].block.actions[2] = CallJob("deploy")
    /\ Len(loader.plans[1][1]) = 6
    /\ loader.plans[1][1][3].input.name = <<"vim">>
    /\ loader.plans[1][2][3].input.name = <<"git">>
    /\ loader.plans[1][1][5].input.name = <<"curl">>
    /\ loader.plans[1][1][6].input.name = <<"vim">>

\* ---------------------------------------------- invocation and transport
\* C36: on each host's event stream every ActionResult{id} comes after an
\* ActionStarted{id} with the same id, also when the action fails because
\* no executor is found for its name
C36_ResultAfterStarted ==
    \A h \in HostIds : \A k \in 1..Len(Log(h)) :
        Log(h)[k].type = "ActionResult" =>
            \E j \in 1..(k - 1) : Log(h)[j] = ActionStarted(Log(h)[k].id)

\* NodeShutdown was forwarded to the UI sink for host h
ShutdownForwarded(h) ==
    \E k \in 1..Len(Log(h)) : Log(h)[k].type = "NodeShutdown"

\* C39: once NodeShutdown{success} is forwarded for a host it is the last
\* event of that host's stream, the reader has returned, and the value the
\* aggregator was given is `success` and no other
C39_ShutdownIsLast ==
    \A h \in HostIds :
        ShutdownForwarded(h) =>
            /\ Log(h)[Len(Log(h))].type = "NodeShutdown"
            /\ \A k \in 1..(Len(Log(h)) - 1) : Log(h)[k].type /= "NodeShutdown"
            /\ reader[h] = "done"
            /\ exitCh[h] = ExitValue(Log(h)[Len(Log(h))].success)

\* NodeShutdown was forwarded while later messages of the agent are queued
C39_Witness ==
    \E h \in HostIds : ShutdownForwarded(h) /\ fromNode[h] /= <<>>

\* the load of the root runbook returned Ok
LoadSucceeded ==
    /\ loader.pos > Len(loader.input)
    /\ loader.error = ""
    /\ ~loader.overflow

\* the `imported` pointers of the jobs and groups of a runbook
Pointers(rb) ==
    {rb.jobs[n].imported : n \in DOMAIN rb.jobs}
        \cup {rb.groups[n].imported : n \in DOMAIN rb.groups}

\* C37: after a successful load every job and group with an `imported`
\* pointer has that pointer among the keys of the runbook's imports,
\* whatever the spelling of the path of the use block
C37_PointerIsKey ==
    LoadSucceeded =>
        \A p \in Pointers(loader.rb) \ {NoPath} :
            p \in DOMAIN loader.rb.imports

\* the label of the run block the loader parsed last
RunLabel == loader.input[Len(loader.input)].name

\* the groups of the runbook that declare a host entry of that name
Declaring(rb, name) ==
    {g \in DOMAIN rb.groups : FirstHostEntry(rb.groups[g], name) /= <<>>}

\* the run of a bare host name is resolved
HostRunResolved ==
    /\ LoadSucceeded
    /\ loader.input[Len(loader.input)].kind = "run"
    /\ RunLabel \notin DOMAIN loader.rb.groups
    /\ Declaring(loader.rb, RunLabel) /= {}

\* C40: a run labelled with a bare host name resolves to one node of that
\* host whose vars are the entry's vars completed by those of the group
\* that declares it, and every evaluation of the runbook gives that node
C40_HostRunLayered ==
    HostRunResolved =>
        /\ Len(loader.resolved) = 1
        /\ loader.resolved[1].host = RunLabel
        /\ \E g \in Declaring(loader.rb, RunLabel) :
            loader.resolved[1] =
                FillVars(NodeNew(RunLabel,
                                 FirstHostEntry(loader.rb.groups[g],
                                                RunLabel)[1].vars),
                         loader.rb.groups[g].vars)
        /\ Cardinality(HostsFromName(loader.rb, RunLabel)) = 1

\* the jobs of the runbook `sub` that hold the block of `job`
SameJob(sub, job) == {m \in DOMAIN sub.jobs : sub.jobs[m].block = job.block}

RECURSIVE Owner(_, _)
\* the runbook that declares the job: the imports are followed for as long
\* as the job was itself imported
Owner(rb, job) ==
    IF job.imported \notin DOMAIN rb.imports THEN rb
    ELSE IF SameJob(rb.imports[job.imported], job) = {}
        THEN rb.imports[job.imported]
    ELSE Owner(rb.imports[job.imported],
               rb.imports[job.imported].jobs[
                   CHOOSE m \in SameJob(rb.imports[job.imported], job) : TRUE])

\* runbook A re-exports the job from a runbook B that imported it itself
Transitive(rb, job) ==
    /\ job.imported \in DOMAIN rb.imports
    /\ \E m \in SameJob(rb.imports[job.imported], job) :
        rb.imports[job.imported].jobs[m].imported /= NoPath

\* the run block of the root runbook calls one job, re-exported
\* transitively, on hosts that were resolved
TransitiveRun ==
    /\ loader.pos = Len(loader.input) + 1 \/ loader.error /= ""
    /\ loader.pos >= Len(loader.input)
    /\ loader.input[Len(loader.input)].kind = "run"
    /\ Len(loader.input[Len(loader.input)].actions) = 1
    /\ loader.input[Len(loader.input)].actions[1].action = "job"
    /\ loader.input[Len(loader.input)].actions[1].params["name"].v
            \in DOMAIN loader.rb.jobs
    /\ Transitive(loader.rb,
                  loader.rb.jobs[loader.input[Len(loader.input)]
                                    .actions[1].params["name"].v])
    /\ \E res \in HostsFromName(loader.rb, RunLabel) : res.ok

\* C38: a job that runbook A re-exports from B, which re-exported it from
\* C, is expanded from A in the scope of C: the plan of a run of A that
\* calls it is the expansion of its body with the jobs of C
C38_OwnerScope ==
    TransitiveRun =>
        LET job == loader.rb.jobs[loader.input[Len(loader.input)]
                                    .actions[1].params["name"].v]
            owned == ParseActions(Owner(loader.rb, job), EmptyMap,
                                  job.block.actions, 1, 1, <<>>)
        IN  owned.ok =>
                /\ loader.error = ""
                /\ loader.plans[Len(loader.plans)][1] = owned.actions

\* ---------------------------------------------- the invocation (core.rs)
\* the hosts of the runs rs
HostIdsOf(rs) == UNION {{<<r, i>> : i \in DOMAIN rs[r]} : r \in DOMAIN rs}

\* core.rs:712, run.rs:116-127: the runs the loaded runbooks hold, as the
\* engine executes them: run r, its hosts and their action lists (the
\* payload of an action is opaque to the engine; none writes output)
EngineRuns(loaded) ==
    [r \in 1..Len(loaded) |->
        [i \in 1..Len(loaded[r].hosts) |->
            [id |-> <<r, i>>,
             host |-> loaded[r].hosts[i].host,
             actions |->
                [j \in 1..Len(loaded[r].plans[i]) |->
                    ActionData(<<r, i, j>>, loaded[r].plans[i][j].name,
                               loaded[r].plans[i][j].action, 0)]]]]

\* runbooks of one run: on localhost; on a remote host with an action that
\* carries a label; of a host that no group declares; with an action that
\* is not in the catalog
Books ==
    {<<GroupOf("db", "localhost"), RunActions("db", <<CopyOf("app.conf")>>)>>,
     <<GroupOf("db", "web1"),
       RunActions("db", <<ActionBlock("copy", <<Str("deploy")>>,
                                      "src" :> Str("app.conf")
                                      @@ "dest" :> Str("/etc"))>>)>>,
     <<RunActions("nohost", <<CopyOf("app.conf")>>)>>,
     <<GroupOf("db", "web1"),
       RunActions("db", <<ActionBlock("file", <<>>,
                                      "path" :> Str("/t"))>>)>>}

\* core.rs:26-56: `tiron run books...` or `tiron check books...`
CmdInit ==
    /\ \E books \in SeqsUpTo(Books, MaxBooks) \ {<<>>}, check \in BOOLEAN :
        cli = [pc |-> "load", check |-> check, books |-> books, next |-> 1,
               loaded |-> <<>>, runs |-> <<>>, error |-> "", exit |-> -1,
               printed |-> FALSE]
    /\ runs = <<>>
    /\ uiRun = <<>>
    /\ uiHost = <<>>
    /\ dispatcher = [pc |-> "unspawned", run |-> 1, recv |-> 0, errors |-> 0]
    /\ worker = <<>>
    /\ exitCh = <<>>
    /\ toNode = <<>>
    /\ fromNode = <<>>
    /\ closed = <<>>
    /\ reader = <<>>
    /\ agent = <<>>
    /\ streams = <<>>
    /\ invoked = <<>>
    /\ loader = [input |-> <<>>, pos |-> 1,
                 rb |-> [groups |-> <<>>, imports |-> <<>>],
                 resolved |-> <<>>, runs |-> <<>>, error |-> ""]
    /\ wire = NoWire

\* runbook.rs:40-68: Runbook::new(path, tx, 0) for a runbook of the command
\* line, no other file beside it
BookLoader ==
    [rb |-> NewRunbook(RootPath, 0), error |-> "", overflow |-> FALSE,
     jobdepth |-> 0, reads |-> <<[file |-> RootPath, level |-> 0]>>]

\* a loop that skips the runbook that fails to load and goes on
AfterBook_Continue(c, ld) ==
    IF ld.error /= ""
        THEN [c EXCEPT !.error = ld.error, !.next = @ + 1,
                       !.loaded = Append(@, c.next)]
        ELSE [c EXCEPT !.next = @ + 1, !.loaded = Append(@, c.next),
                       !.runs = @ \o ld.rb.runs]

\* core.rs:707-711: Runbook::new(..)?; runbook.parse(true)?;
\* runs.push(runbook.runs): `?` returns the error of the load from run()
AfterBook(c, ld) ==
    IF ld.error /= ""
        THEN [c EXCEPT !.error = ld.error, !.pc = "failed",
                       !.loaded = Append(@, c.next)]
        ELSE [c EXCEPT !.next = @ + 1, !.loaded = Append(@, c.next),
                       !.runs = @ \o ld.rb.runs]

\* the engine, the loader and the transport are left alone
CmdFrame ==
    UNCHANGED <<runs, uiRun, uiHost, dispatcher, worker, exitCh, toNode,
                fromNode, closed, reader, agent, streams, invoked, loader,
                wire>>

\* core.rs:706-711: the next runbook of `for path in runbooks.iter()`
LoadBook ==
    /\ cli.pc = "load"
    /\ cli.next <= Len(cli.books)
    /\ \E ld \in ParseFrom(EmptyMap, BookLoader, cli.books[cli.next], 1) :
        cli' = AfterBook(cli, ld)
    /\ CmdFrame

\* core.rs:34-36, 50-52, error.rs:92-135: run() returned Err:
\* report_stderr prints the error and exits with code 1
ReportError ==
    /\ cli.pc = "failed"
    /\ cli' = [cli EXCEPT !.pc = "exited", !.exit = 1]
    /\ CmdFrame

\* the runs are executed in check mode too
ShouldExecute_Always(check) == TRUE

\* core.rs:714: `if !check`
ShouldExecute(check) == ~check

\* core.rs:44-49, 714, 736: in check mode run() returns Ok(runbooks) once
\* they are loaded; cmd prints the paths and returns
CheckDone ==
    /\ cli.pc = "load"
    /\ cli.next > Len(cli.books)
    /\ ~ShouldExecute(cli.check)
    /\ cli' = [cli EXCEPT !.pc = "exited", !.exit = 0, !.printed = TRUE]
    /\ CmdFrame

\* core.rs:714-733: app.runs is set, the dispatcher thread is spawned and
\* the application starts
StartApp ==
    /\ cli.pc = "load"
    /\ cli.next > Len(cli.books)
    /\ ShouldExecute(cli.check)
    /\ cli' = [cli EXCEPT !.pc = "app"]
    /\ runs' = EngineRuns(cli.runs)
    /\ dispatcher' = [dispatcher EXCEPT
                        !.pc = IF cli.runs = <<>> THEN "done" ELSE "next"]
    /\ uiHost' = [h \in HostIdsOf(runs') |-> <<>>]
    /\ worker' = [h \in HostIdsOf(runs') |-> "unspawned"]
    /\ exitCh' = [h \in HostIdsOf(runs') |-> "none"]
    /\ toNode' = [h \in HostIdsOf(runs') |-> <<>>]
    /\ fromNode' = [h \in HostIdsOf(runs') |-> <<>>]
    /\ closed' = [h \in HostIdsOf(runs') |-> FALSE]
    /\ reader' = [h \in HostIdsOf(runs') |-> "none"]
    /\ agent' = [h \in HostIdsOf(runs') |->
                    [pc |-> "none", had_error |-> FALSE, cur |-> NoAction]]
    /\ streams' = [h \in HostIdsOf(runs') |-> {}]
    /\ invoked' = [h \in HostIdsOf(runs') |-> <<>>]
    /\ UNCHANGED <<uiRun, loader, wire>>

\* app.rs:60-64, 177, core.rs:733-736, 34: the user quits once the runs are
\* over: app.start() returns Ok, run() returns Ok(runbooks) and cmd returns,
\* so the process ends with code 0
Quit ==
    /\ cli.pc = "app"
    /\ dispatcher.pc = "done"
    /\ cli' = [cli EXCEPT !.pc = "exited", !.exit = 0]
    /\ CmdFrame

\* core.rs:26-56, 682-737: the steps of an invocation and of the engine it
\* starts
CmdNext ==
    \/ LoadBook
    \/ ReportError
    \/ CheckDone
    \/ StartApp
    \/ Quit
    \/ QuietNext

CmdSpec == CmdInit /\ [][CmdNext]_vars

\* C31: in check mode nothing is executed: no RunStarted or RunCompleted
\* event is emitted, the dispatcher and the host workers are not spawned and
\* no agent, local or remote, is started, whatever the runbooks hold
C31_CheckExecutesNothing ==
    (cli.pc /= "none" /\ cli.check) =>
        /\ uiRun = <<>>
        /\ dispatcher.pc = "unspawned"
        /\ \A h \in DOMAIN worker : worker[h] = "unspawned"
        /\ \A h \in DOMAIN agent : agent[h].pc = "none"
        /\ \A h \in DOMAIN uiHost : uiHost[h] = <<>>

\* a check of runbooks that declare runs ended with their paths printed
C31_Witness ==
    /\ cli.pc = "exited"
    /\ cli.check
    /\ cli.printed
    /\ cli.exit = 0
    /\ Len(cli.runs) = MaxBooks

\* book k of the invocation does not load
BookFails(k) ==
    \A ld \in ParseFrom(EmptyMap, BookLoader, cli.books[k], 1) :
        ld.error /= ""

\* the runbooks of the invocation that do not load
Failing == {k \in 1..Len(cli.books) : BookFails(k)}

\* C32: when a runbook of the invocation fails to load, no runbook after
\* the first failing one is loaded, no run of any runbook is executed, in
\* run mode as in check mode, and the invocation ends with the error
C32_LoadErrorStops ==
    (cli.pc /= "none" /\ Failing /= {}) =>
        /\ \A k \in Range(cli.loaded) : \A f \in Failing : k <= f
        /\ cli.pc \in {"load", "failed", "exited"}
        /\ runs = <<>>
        /\ uiRun = <<>>
        /\ dispatcher.pc = "unspawned"
        /\ cli.pc = "exited" => (cli.exit = 1 /\ ~cli.printed)

\* a run invocation of two runbooks whose second fails to load ended: the
\* run of the first was loaded and never started
C32_Witness ==
    /\ cli.pc = "exited"
    /\ ~cli.check
    /\ cli.error /= ""
    /\ cli.loaded = <<1, 2>>
    /\ Len(cli.runs) = 1

\* C33: a run invocation in which a run completed without success ends
\* with exit code 1; the exit code is 0 only when the runbooks were loaded
\* and every run succeeded
C33_ExitCodeOnFailure ==
    (cli.pc = "exited" /\ ~cli.check) =>
        /\ (\E k \in 1..Len(uiRun) :
               uiRun[k].type = "RunCompleted" /\ ~uiRun[k].success)
            => cli.exit = 1
        /\ cli.exit = 0 =>
            /\ cli.error = ""
            /\ \A k \in 1..Len(uiRun) :
                 uiRun[k].type = "RunCompleted" => uiRun[k].success

\* ------------------------------------- one direction of a transport
\* a line on the wire: `json` tells whether serde_json::from_str parses it,
\* `tag` and `fields` are the variant and the fields of the JSON object
Frame(json, tag, fields) == [json |-> json, tag |-> tag, fields |-> fields]

\* the fields of the variants of ActionMessage used on the wire
FieldsOf(tag) ==
    IF tag = "ActionStarted" THEN {"id"}
    ELSE IF tag = "ActionResult" THEN {"id", "success"}
    ELSE {}

\* stdio.rs:40: serde_json::to_string(&msg): the variant as the key of an
\* object that holds the fields
Encode(msg) ==
    Frame(TRUE, msg.type, [k \in DOMAIN msg \ {"type"} |-> msg[k]])

\* stdio.rs:55-58: serde_json::from_value::<RpcMessage>: Some(msg) (<<msg>>)
\* for a variant of the type with its fields, None (<<>>) otherwise
FromValue(frame) ==
    IF /\ frame.tag \in {"ActionStarted", "ActionResult"}
       /\ DOMAIN frame.fields = FieldsOf(frame.tag)
        THEN <<[k \in DOMAIN frame.fields \cup {"type"} |->
                  IF k = "type" THEN frame.tag ELSE frame.fields[k]]>>
        ELSE <<>>

\* lines that are no ActionMessage: text that is not JSON; a JSON object of
\* another type (a NodeMessage); a variant without its fields
NoiseFrames ==
    {Frame(FALSE, "", <<>>),
     Frame(TRUE, "Shutdown", <<>>),
     Frame(TRUE, "ActionResult", [k \in {"id"} |-> 1])}

\* the n-th message the sender sends
WireMessages(n) == {ActionStarted(n), ActionResult(n, TRUE)}

RECURSIVE Decoded(_)
\* the messages that the lines on the wire decode to, in order
Decoded(frames) ==
    IF frames = <<>> THEN <<>>
    ELSE (IF Head(frames).json THEN FromValue(Head(frames)) ELSE <<>>)
            \o Decoded(Tail(frames))

\* stdio.rs:8-33, local.rs:6-16: a transport is set up: the channels are
\* empty, the writer and reader threads run.  `local`: the in-process
\* transport, whose receiver reads the channel the sender writes
WireInit ==
    /\ \E local \in BOOLEAN :
        wire = [pc |-> "open", local |-> local, sender |-> "open",
                sent |-> <<>>, out |-> <<>>, writer |-> "running",
                pipe |-> <<>>, noise |-> 0, reader |-> "running",
                read |-> <<>>, inb |-> <<>>, got |-> <<>>]
    /\ EngineInit(<<>>)
    /\ loader = [input |-> <<>>, pos |-> 1,
                 rb |-> [groups |-> <<>>, imports |-> <<>>],
                 resolved |-> <<>>, runs |-> <<>>, error |-> ""]
    /\ cli = NoCli

\* nothing but the transport takes a step
WireFrame ==
    UNCHANGED <<runs, uiRun, uiHost, dispatcher, worker, exitCh, toNode,
                fromNode, closed, reader, agent, streams, invoked, loader,
                cli>>

\* the sender sends its next message into the outbound channel
WireSend ==
    /\ wire.pc = "open"
    /\ wire.sender = "open"
    /\ Len(wire.sent) < MaxSent
    /\ \E msg \in WireMessages(Len(wire.sent) + 1) :
        wire' = [wire EXCEPT !.sent = Append(@, msg),
                             !.out = Append(@, msg)]
    /\ WireFrame

\* the sender is dropped: the outbound channel is disconnected
WireSenderDrop ==
    /\ wire.pc = "open"
    /\ wire.sender = "open"
    /\ wire' = [wire EXCEPT !.sender = "dropped"]
    /\ WireFrame

\* a writer that writes the line of every message twice
WriteMsg_Twice(pipe, msg) == pipe \o <<Encode(msg), Encode(msg)>>

\* stdio.rs:35-44: write_msg: the message as one line of JSON
WriteMsg(pipe, msg) == Append(pipe, Encode(msg))

\* stdio.rs:19-25: the writer thread takes the next value of
\* writer_receiver and writes it
WriterWrite ==
    /\ wire.pc = "open"
    /\ ~wire.local
    /\ wire.writer = "running"
    /\ wire.out /= <<>>
    /\ wire' = [wire EXCEPT !.out = Tail(@),
                            !.pipe = WriteMsg(@, Head(wire.out))]
    /\ WireFrame

\* stdio.rs:20-24: the channel is empty and disconnected (the loop ends), or
\* write_msg fails because nobody reads the pipe any more: the writer thread
\* returns and its end of the pipe is closed
WriterEnd ==
    /\ wire.pc = "open"
    /\ ~wire.local
    /\ wire.writer = "running"
    /\ \/ wire.out = <<>> /\ wire.sender = "dropped"
       \/ wire.out /= <<>> /\ wire.reader = "ended"
    /\ wire' = [wire EXCEPT !.writer = "ended",
                            !.out = IF @ = <<>> THEN @ ELSE Tail(@)]
    /\ WireFrame

\* the process at the other end prints a line that is no message
WireNoise ==
    /\ wire.pc = "open"
    /\ ~wire.local
    /\ wire.writer = "running"
    /\ wire.noise < MaxNoise
    /\ \E frame \in NoiseFrames :
        wire' = [wire EXCEPT !.pipe = Append(@, frame), !.noise = @ + 1]
    /\ WireFrame

\* a reader that hands a message to the receiver ahead of those that wait
Deliver_Front(inb, msgs) == msgs \o inb

\* stdio.rs:28-30: reader_sender.send(msg) for Some(msg), nothing for None
Deliver(inb, msgs) == inb \o msgs

\* stdio.rs:26-32, 46-60: the reader thread reads the next line: a line
\* that is not JSON ends the thread with the error of from_str; a JSON
\* value is sent to the inbound channel when it is a message
ReaderRead ==
    /\ wire.pc = "open"
    /\ ~wire.local
    /\ wire.reader = "running"
    /\ wire.pipe /= <<>>
    /\ LET frame == Head(wire.pipe) IN
        wire' = [wire EXCEPT
                    !.pipe = Tail(@),
                    !.read = Append(@, frame),
                    !.reader = IF frame.json THEN "running" ELSE "ended",
                    !.inb = IF frame.json THEN Deliver(@, FromValue(frame))
                            ELSE @]
    /\ WireFrame

\* stdio.rs:52-53: the pipe is at its end: read_line reads nothing and
\* from_str fails on the empty string, which ends the reader thread
ReaderEof ==
    /\ wire.pc = "open"
    /\ ~wire.local
    /\ wire.reader = "running"
    /\ wire.pipe = <<>>
    /\ wire.writer = "ended"
    /\ wire' = [wire EXCEPT !.reader = "ended"]
    /\ WireFrame

\* the receiver takes the next message of the inbound channel
WireRecv ==
    /\ wire.pc = "open"
    /\ ~wire.local
    /\ wire.inb /= <<>>
    /\ wire' = [wire EXCEPT !.inb = Tail(@), !.got = Append(@, Head(wire.inb))]
    /\ WireFrame

\* local.rs:7-12: the receiver of the local transport takes the next
\* message of the channel the sender wrote it to
LocalRecv ==
    /\ wire.pc = "open"
    /\ wire.local
    /\ wire.out /= <<>>
    /\ wire' = [wire EXCEPT !.out = Tail(@), !.got = Append(@, Head(wire.out))]
    /\ WireFrame

WireNext ==
    \/ WireSend
    \/ WireSenderDrop
    \/ WriterWrite
    \/ WriterEnd
    \/ WireNoise
    \/ ReaderRead
    \/ ReaderEof
    \/ WireRecv
    \/ LocalRecv

WireSpec == WireInit /\ [][WireNext]_vars

\* the direction is open: its threads run (the local one has none)
WireOpen == wire.local \/ (wire.writer = "running" /\ wire.reader = "running")

\* s is a prefix of t
IsPrefix(s, t) == Len(s) <= Len(t) /\ s = SubSeq(t, 1, Len(s))

\* C34: the messages sent into one direction of a transport are delivered
\* in send order, none twice and none out of order; while the direction is
\* open none is lost: those not yet received wait, in order, in the inbound
\* channel, on the wire and in the outbound channel
C34_InOrderDelivery ==
    wire.pc = "open" =>
        /\ IsPrefix(wire.got, wire.sent)
        /\ IsPrefix(wire.got \o wire.inb, wire.sent)
        /\ WireOpen =>
            wire.sent = wire.got \o wire.inb \o Decoded(wire.pipe)
                            \o wire.out

\* every message sent was received through the wire, between lines that
\* are no message
C34_Witness ==
    /\ wire.pc = "open"
    /\ ~wire.local
    /\ Len(wire.got) = MaxSent
    /\ wire.noise > 0
    /\ WireOpen

\* the reader read a line that does not decode to a message
ReadUndecodable ==
    \E k \in 1..Len(wire.read) :
        ~wire.read[k].json \/ FromValue(wire.read[k]) = <<>>

\* C35: once the reader of a transport read a line that cannot be decoded
\* as a message of the expected type, it delivers nothing more to its
\* inbound channel
C35_DecodeErrorCloses ==
    [][(wire.pc = "open" /\ ReadUndecodable) =>
            Len(wire'.got) + Len(wire'.inb) = Len(wire.got) + Len(wire.inb)]_vars

====
